---- MODULE Spec2Model ----
(***************************************************************************)
(* Server core of the pika host-fleet monitor: the alert state machine     *)
(* over alert_states / alert_records, the property cache, the metric       *)
(* rollup with its progress table, and the query planner.                  *)
(*                                                                         *)
(* All times are milliseconds.  Each subsystem has its own specification   *)
(* (SpecAlert, SpecProperty, SpecRollup, SpecQuery); a specification       *)
(* leaves the variables of the other subsystems unchanged.                 *)
(***************************************************************************)
EXTENDS Integers, Sequences, FiniteSets, Bags, TLC

VARIABLES
    now,            \* time.Now().UnixMilli(), the server clock
    ticks,          \* number of clock advances taken (bounds the run)
    alertStates,    \* table alert_states: state id -> row
    alertRecords,   \* table alert_records: set of rows
    nextRecordID,   \* autoIncrement sequence of alert_records.id
    streakStart,    \* history: first scan of the current run of scans above threshold
    streakFired,    \* history: records inserted in the current run
    streakCollected, \* history: the state row was collected during the current run
    propRow,        \* table properties: the stored value of one property id (0: no row)
    propCache,      \* PropertyService.cache: the entry of that id
    getPC,          \* position of each running PropertyService.Get
    getVal,         \* the row a Get read from the table / the value it returned
    getExpect,      \* history: the value a completed Set obliges this Get to return
    setPC,          \* position of the running PropertyService.Set
    setVal,         \* the value being written by Set
    setCount,       \* number of Set calls started
    lastSetValue,   \* history: the value of the last Set that returned (0: none)
    retentionHours, \* MetricsConfig.RetentionHours as stored in the property table
    rawRows,        \* table cpu_metrics: the raw rows
    savedRows,      \* history: every row SaveCPUMetric has inserted
    pendingRows,    \* HandleMetricData calls that stamped a row and have not inserted it
    nextRawID,      \* number of HandleMetricData calls started; identifies the row of a call
    aggRows,        \* table cpu_metrics_agg: the bag of aggregate rows of every bucket width
    runs,           \* number of aggregateMetric calls made (bounds the run)
    failures,       \* number of aggregateMetric calls in which a database call failed
    progress,       \* table aggregation_progress: bucketSeconds -> lastBucket (0: no row)
    lastRun,        \* history: the last aggregateMetric call of each bucket width
    maxAggregated,  \* history: the largest endBucket an aggregate step completed for
    rawTouched,     \* history: the raw table changed since the last aggregateMetric call
    envChanged,     \* history: the clock or the retention setting changed since that call
    qInput,         \* the arguments of a metrics query and the configuration it runs under
    qPhase,         \* "new", "planned" (DetermineInterval returned), "served" (GetMetrics returned)
    qStart,         \* the start of the range the call worked on
    qEnd,           \* the end of the range the call worked on
    qInterval,      \* the interval the call determined
    qSource,        \* the table the result came from: 0 raw rows, -1 none, else the bucket width
    qRows,          \* the number of rows GetMetrics returned
    qReads,         \* the repository reads the call made, in order
    qResult,        \* the rows GetMetrics returned, when it read the tables of the model
    qAt,            \* the clock normalizeTimeRange read in the planner call
    qPrev,          \* history: the planner call completed before this one
    diskRows,       \* table disk_metrics: the raw rows of the disk kind
    frames,         \* number of metric frames HandleMetricData has been given
    dropped,        \* history: number of frames that were dropped
    lastFrame,      \* history: the last frame, the rows it wrote and what the call returned
    agents,         \* table agents: the set of rows
    regCalls,       \* the RegisterAgent call of each caller: its position and locals
    regCount,       \* number of RegisterAgent calls started
    owned,          \* per table, the agents that own a row in it
    inFlight,       \* agents with a metric frame HandleMetricData has parsed and not saved
    deletedOK,      \* history: agents whose DeleteAgent succeeded and that have not registered since
    stores,         \* number of rows written to the owned tables (bounds the run)
    initPC,         \* position of InitStatus: "idle", "loop", "done", "failed"
    initList,       \* InitStatus: the agents FindAll returned that are still to be updated
    statusCall,     \* history: the arguments of the UpdateAgentStatus call just made
    statusCount,    \* number of UpdateAgentStatus calls made
    properties,     \* table properties: property id -> row, for the ids with a row
    dcPC,           \* position of InitializeDefaultConfigs: "idle", "loop", "done", "failed"
    dcIndex,        \* InitializeDefaultConfigs: index into defaultConfigs of the loop
    dcRuns,         \* number of InitializeDefaultConfigs calls started
    dcBefore,       \* history: the table when the current call started
    dcPrevOK,       \* history: the call before the current one returned nil
    nInput,         \* SendAlertNotification: the notification type and the stored configuration
    nPhase,         \* "idle", "new" (called), "done" (SendAlertNotification returned)
    handed,         \* the channels handed to the notifier, in order
    notifierCalls,  \* number of calls of Notifier.SendNotificationByConfigs
    nResult,        \* what SendAlertNotification returned: "nil" or "error"
    cancelled,      \* the root context is cancelled (ctx.Done() is closed)
    pConfig,        \* the stored public-IP config
    clients,        \* websocket.Manager: the connected agents
    pushPC,         \* PublicIPService.Run: "top", "sending", "sleeping", "returned"
    pushConfigOK,   \* Run: GetPublicIPConfig succeeded in this turn of the loop
    pushList,       \* sendConfigToOnlineAgents: the agents of GetAllClients still to visit
    pushClients,    \* history: what GetAllClients returned in the current tick
    pushFrames,     \* history: the frames passed to SendToClient in the current tick
    attempts,       \* history: SendToClient calls per agent in the current tick
    failedPrev,     \* history: the agents whose send failed in the tick before
    pushTick,       \* number of push ticks started
    cleanupPC,      \* StartCleanupTask: "idle", "waiting" (in select), "running", "returned"
    aggPC,          \* StartAggregationTask: "idle", "waiting" (in select), "running", "returned"
    aggLeft,        \* runAggregation: the buckets of the running tick still to do
    pcAtCancel,     \* history: the positions of the three loops when the context was cancelled
    clearReq,       \* history: the agentId parameter of the last DELETE of alert records
    clearCount,     \* number of DELETE requests for alert records
    scanLog,         \* history: the offline checks made, in order
    readFailed,  \* history: the key whose sample read failed in the last scan step, or <<>>
    readFailures,  \* number of failed sample reads
    scanPC,  \* the scan in progress: the pair whose record is written and whose state write is still to come
    crashes,  \* number of times the server was stopped
    deleteResult,  \* history: the last DeleteAgent call: the agent, the step that failed (0: none) and the error returned
    deleteCalls,  \* number of DeleteAgent calls
    tickLeft,  \* runAggregation: the (kind, bucket) pairs of the running tick still to do
    pairProgress,  \* aggregation progress: lastBucket per (kind, bucket) pair, 0 when there is no row
    pairLast,  \* history: the last aggregateMetric call of each pair
    pairPrev,  \* history: the aggregateMetric call of each pair before the last
    pairAggEnd,  \* history: the endBucket of the last successful aggregate step of each pair, 0 when none
    tickNo,  \* number of rollup ticks started
    tickFailures,  \* number of failed repository calls in the rollup ticks
    stateStore,  \* GitHubOAuthService.stateStore: the expiry time of each stored state
    exchangeCalls,  \* ExchangeCode: the position and state parameter of each running callback
    issuedAt,  \* history: the time GenerateAuthURL issued each state, 0 when not issued
    accepted,  \* history: how many ExchangeCode calls accepted each state
    oauthOps  \* number of GenerateAuthURL and ExchangeCode calls started

alertVars == <<alertStates, alertRecords, nextRecordID, streakStart, streakFired,
              streakCollected>>

propVars == <<propRow, propCache, getPC, getVal, getExpect, setPC, setVal,
              setCount, lastSetValue>>

rollupVars == <<retentionHours, rawRows, savedRows, pendingRows, nextRawID, aggRows,
                runs, failures, progress, lastRun, maxAggregated, rawTouched,
                envChanged>>

queryVars == <<qInput, qPhase, qStart, qEnd, qInterval, qSource, qRows, qReads,
              qResult, qAt, qPrev>>

ingestVars == <<diskRows, frames, dropped, lastFrame>>

agentVars == <<agents, regCalls, regCount>>

cascadeVars == <<owned, inFlight, deletedOK, stores>>

startupVars == <<initPC, initList, statusCall, statusCount>>

defaultsVars == <<properties, dcPC, dcIndex, dcRuns, dcBefore, dcPrevOK>>

notifyVars == <<nInput, nPhase, handed, notifierCalls, nResult>>

pushVars == <<pConfig, clients, pushPC, pushConfigOK, pushList, pushClients,
             pushFrames, attempts, failedPrev, pushTick>>

loopVars == <<cleanupPC, aggPC, aggLeft, pcAtCancel>>

clearVars == <<clearReq, clearCount>>

offlineVars == <<scanLog>>

samplingVars == <<readFailed, readFailures>>

stopVars == <<scanPC, crashes>>

atomicVars == <<deleteResult, deleteCalls>>

tickVars == <<tickLeft, pairProgress, pairLast, pairPrev, pairAggEnd, tickNo,
              tickFailures>>

oauthVars == <<stateStore, exchangeCalls, issuedAt, accepted, oauthOps>>

extVars == <<cascadeVars, startupVars, defaultsVars, notifyVars, cancelled, pushVars,
             loopVars, clearVars, offlineVars,
    samplingVars,
    stopVars,
    atomicVars,
    tickVars,
    oauthVars>>

\* the variables of the later subsystems but those of one
extButCascade == <<startupVars, defaultsVars, notifyVars, cancelled, pushVars,
    loopVars, clearVars, offlineVars,
    samplingVars,
    stopVars,
    atomicVars,
    tickVars,
    oauthVars>>
extButStartup == <<cascadeVars, defaultsVars, notifyVars, cancelled, pushVars,
    loopVars, clearVars, offlineVars,
    samplingVars,
    stopVars,
    atomicVars,
    tickVars,
    oauthVars>>
extButDefaults == <<cascadeVars, startupVars, notifyVars, cancelled, pushVars,
    loopVars, clearVars, offlineVars,
    samplingVars,
    stopVars,
    atomicVars,
    tickVars,
    oauthVars>>
extButNotify == <<cascadeVars, startupVars, defaultsVars, cancelled, pushVars,
    loopVars, clearVars, offlineVars,
    samplingVars,
    stopVars,
    atomicVars,
    tickVars,
    oauthVars>>
extButPush == <<cascadeVars, startupVars, defaultsVars, notifyVars, loopVars,
               clearVars, offlineVars,
    samplingVars,
    stopVars,
    atomicVars,
    tickVars,
    oauthVars>>
extButLoops == <<cascadeVars, startupVars, defaultsVars, notifyVars, pushVars,
                clearVars, offlineVars,
    samplingVars,
    stopVars,
    atomicVars,
    tickVars,
    oauthVars>>
extButClear == <<cascadeVars, startupVars, defaultsVars, notifyVars, cancelled,
                pushVars, loopVars, offlineVars,
    samplingVars,
    stopVars,
    atomicVars,
    tickVars,
    oauthVars>>
extButOffline == <<cascadeVars, startupVars, defaultsVars, notifyVars, cancelled,
                  pushVars, loopVars, clearVars,
    samplingVars,
    stopVars,
    atomicVars,
    tickVars,
    oauthVars>>
extButSampling == <<cascadeVars, startupVars, defaultsVars, notifyVars,
    cancelled, pushVars, loopVars, clearVars,
    offlineVars,
    stopVars,
    atomicVars,
    tickVars,
    oauthVars>>
extButStop == <<cascadeVars, startupVars, defaultsVars, notifyVars,
    cancelled, pushVars, loopVars, clearVars,
    offlineVars, samplingVars,
    atomicVars,
    tickVars,
    oauthVars>>
extButAtomic == <<cascadeVars, startupVars, defaultsVars, notifyVars,
    cancelled, pushVars, loopVars, clearVars,
    offlineVars, samplingVars, stopVars,
    tickVars,
    oauthVars>>
extButCascadeAtomic == <<startupVars, defaultsVars, notifyVars, cancelled,
    pushVars, loopVars, clearVars, offlineVars,
    samplingVars, stopVars,
    tickVars,
    oauthVars>>
extButTick == <<cascadeVars, startupVars, defaultsVars, notifyVars,
    cancelled, pushVars, loopVars, clearVars,
    offlineVars, samplingVars, stopVars, atomicVars,
    oauthVars>>
extButOAuth == <<cascadeVars, startupVars, defaultsVars, notifyVars,
    cancelled, pushVars, loopVars, clearVars,
    offlineVars, samplingVars, stopVars, atomicVars,
    tickVars>>

coreVars == <<now, ticks, alertVars, propVars, rollupVars, queryVars, ingestVars,
              agentVars>>

----------------------------------------------------------------------------
(* Bounds of the model *)

MaxTicks == 3
MaxRecords == 2
MaxSets == 2
MaxPropTicks == 2
MaxRollupTicks == 3
MaxRaw == 2
MaxRuns == 3
MaxFailures == 1
MaxFrames == 2
MaxElements == 2
MaxRegs == 3
MaxStores == 3
MaxStatusCalls == 2
MaxStartupRegs == 2
MaxInitRuns == 2
MaxPushTicks == 2
MaxClears == 1

----------------------------------------------------------------------------
(* Alert engine *)

Agents == {"a1", "a2"}

\* state id agentID:ruleKey:alertType; one rule (cpu) per agent
StateIDs == {<<a, "cpu">> : a \in Agents}

CPUThreshold == 80
CPUDuration == 300
StateMaxAgeMs == 24 * 3600 * 1000

\* sampled values: exactly at the threshold (not above it) and above it
SampleValues == {80, 90}

\* clock steps: the shortest scan period, the rule duration, and a gap
\* longer than the age at which state rows are collected
ClockSteps == {5000, CPUDuration * 1000, StateMaxAgeMs + 1}

ZeroState(id) ==
    [id |-> id, agentID |-> id[1], alertType |-> id[2], value |-> 0,
     threshold |-> 0, startTime |-> 0, duration |-> 0, lastCheckTime |-> 0,
     isFiring |-> FALSE, lastRecordID |-> 0, createdAt |-> 0, updatedAt |-> 0]

\* AlertStateRepo.GetAlertState: the row, or an error when there is none
HasAlertState(states, id) == id \in DOMAIN states

\* SaveAlertState written with Create instead of Save: an existing row makes
\* the insert fail on its primary key and the stored row stays as it was
SaveAlertStateInsertOnly(states, state, t) ==
    IF state.id \in DOMAIN states
    THEN states
    ELSE [k \in (DOMAIN states) \cup {state.id} |->
            IF k = state.id
            THEN [state EXCEPT !.createdAt = t, !.updatedAt = t]
            ELSE states[k]]

\* AlertStateRepo.SaveAlertState: createdAt is set once, gorm Save upserts
\* the row by primary key and stamps updatedAt (autoUpdateTime:milli)
SaveAlertState(states, state, t) ==
    LET s1 == IF state.createdAt = 0 THEN [state EXCEPT !.createdAt = t] ELSE state
        s2 == [s1 EXCEPT !.updatedAt = t]
    IN  [k \in (DOMAIN states) \cup {state.id} |->
            IF k = state.id THEN s2 ELSE states[k]]

\* AlertStateRepo.DeleteAlertState
DeleteAlertState(states, id) ==
    [k \in (DOMAIN states) \ {id} |-> states[k]]

\* AlertStateRepo.CleanupOldStates: rows with updated_at < now - 24h go
CleanupOldStates(states, t) ==
    [k \in {j \in DOMAIN states : ~(states[j].updatedAt < t - StateMaxAgeMs)}
        |-> states[k]]

\* AlertRecordRepo.CreateAlertRecord: insert under the next autoincrement id
CreateAlertRecord(records, record, id) ==
    records \cup {[record EXCEPT !.id = id]}

\* AlertRecordRepo.UpdateAlertRecord: gorm Save, an upsert by primary key
UpdateAlertRecord(records, record) ==
    {r \in records : r.id # record.id} \cup {record}

\* AlertRecordRepo.GetAlertRecordByID
RecordsByID(records, id) == {r \in records : r.id = id}

\* AlertRecordRepo.Clear: DELETE FROM alert_records WHERE 1=1
ClearRecords(records) == {}

\* the record the engine inserts on the transition to firing
FiringRecord(id, v, t) ==
    [id |-> 0, agentID |-> id[1], alertType |-> id[2],
     threshold |-> CPUThreshold, actualValue |-> v,
     status |-> "firing", firedAt |-> t, resolvedAt |-> 0]

\* value > threshold, first part: open the streak or refresh the check time
TouchState(s0, v, t) ==
    IF s0.startTime = 0
    THEN [s0 EXCEPT !.startTime = t, !.lastCheckTime = t, !.isFiring = FALSE,
                    !.value = v, !.threshold = CPUThreshold,
                    !.duration = CPUDuration]
    ELSE [s0 EXCEPT !.lastCheckTime = t, !.value = v]

\* value > threshold, second part: the transition to firing is due
ShouldFire(s, t) ==
    ~s.isFiring /\ t - s.startTime >= s.duration * 1000

\* one scan of one (agent, rule) pair that read the sample v
CheckAlert(id, v) ==
    LET s0 == IF HasAlertState(alertStates, id) THEN alertStates[id]
              ELSE ZeroState(id)
    IN
    IF v > CPUThreshold
    THEN LET s1 == TouchState(s0, v, now)
             fire == ShouldFire(s1, now)
             s2 == IF fire
                   THEN [s1 EXCEPT !.lastRecordID = nextRecordID, !.isFiring = TRUE]
                   ELSE s1
         IN  /\ fire => nextRecordID <= MaxRecords
             /\ alertRecords' =
                    IF fire
                    THEN CreateAlertRecord(alertRecords, FiringRecord(id, v, now),
                                           nextRecordID)
                    ELSE alertRecords
             /\ nextRecordID' = IF fire THEN nextRecordID + 1 ELSE nextRecordID
             /\ alertStates' = SaveAlertState(alertStates, s2, now)
             /\ streakStart' = [streakStart EXCEPT ![id] =
                                    IF @ = 0 THEN now ELSE @]
             /\ streakFired' = [streakFired EXCEPT ![id] =
                                    IF fire THEN @ + 1 ELSE @]
             /\ UNCHANGED streakCollected
    ELSE LET found == RecordsByID(alertRecords, s0.lastRecordID)
         IN  /\ alertRecords' =
                    IF s0.isFiring /\ found # {}
                    THEN LET r == CHOOSE x \in found : TRUE
                         IN  UpdateAlertRecord(alertRecords,
                                 [r EXCEPT !.status = "resolved", !.resolvedAt = now])
                    ELSE alertRecords
             /\ alertStates' = DeleteAlertState(alertStates, id)
             /\ UNCHANGED nextRecordID
             /\ streakStart' = [streakStart EXCEPT ![id] = 0]
             /\ streakFired' = [streakFired EXCEPT ![id] = 0]
             /\ streakCollected' = [streakCollected EXCEPT ![id] = FALSE]

Scan ==
    \E id \in StateIDs, v \in SampleValues :
        /\ CheckAlert(id, v)
        /\ UNCHANGED <<now, ticks>>
        /\ UNCHANGED <<propVars, rollupVars, queryVars, ingestVars, agentVars, extVars>>

\* DELETE /alerts/records
ClearAlertRecords ==
    /\ alertRecords # {}
    /\ alertRecords' = ClearRecords(alertRecords)
    /\ UNCHANGED <<now, ticks, alertStates, nextRecordID, streakStart, streakFired,
                   streakCollected>>
    /\ UNCHANGED <<propVars, rollupVars, queryVars, ingestVars, agentVars, extVars>>

\* the periodic collection of stale state rows
CleanupStates ==
    /\ alertStates' = CleanupOldStates(alertStates, now)
    /\ alertStates' # alertStates
    /\ streakCollected' =
          [id \in StateIDs |->
              streakCollected[id] \/ (id \in DOMAIN alertStates \ DOMAIN alertStates')]
    /\ UNCHANGED <<now, ticks, alertRecords, nextRecordID, streakStart, streakFired>>
    /\ UNCHANGED <<propVars, rollupVars, queryVars, ingestVars, agentVars, extVars>>

\* the clock moves on between operations
AdvanceClock ==
    \E dt \in ClockSteps :
        /\ ticks < MaxTicks
        /\ now' = now + dt
        /\ ticks' = ticks + 1
        /\ UNCHANGED alertVars
        /\ UNCHANGED <<propVars, rollupVars, queryVars, ingestVars, agentVars, extVars>>

\* empty alert tables
AlertTablesInit ==
    /\ alertStates = <<>>
    /\ alertRecords = {}
    /\ nextRecordID = 1
    /\ streakStart = [id \in StateIDs |-> 0]
    /\ streakFired = [id \in StateIDs |-> 0]
    /\ streakCollected = [id \in StateIDs |-> FALSE]

Readers == {"g1", "g2"}

NoEntry == [present |-> FALSE, value |-> 0, expiresAt |-> 0]

\* the property row written by the start-up defaults, an empty cache, no call running
PropertyInit ==
    /\ propRow = 1
    /\ propCache = NoEntry
    /\ getPC = [r \in Readers |-> "idle"]
    /\ getVal = [r \in Readers |-> 0]
    /\ getExpect = [r \in Readers |-> 0]
    /\ setPC = "idle"
    /\ setVal = 0
    /\ setCount = 0
    /\ lastSetValue = 0

\* runAggregation: buckets := []int{60, 300, 3600}; every width goes through
\* the same aggregateMetric with its own progress row, the narrowest is modelled
BucketSizes == {60}

NoRun == [outcome |-> "none", readOK |-> TRUE, start |-> 0, endBucket |-> 0]

\* empty metric tables, no stored metrics configuration, no call running
RollupTablesInit ==
    /\ retentionHours = 0
    /\ rawRows = {}
    /\ savedRows = {}
    /\ pendingRows = {}
    /\ nextRawID = 1
    /\ aggRows = EmptyBag
    /\ runs = 0
    /\ failures = 0
    /\ progress = [bs \in BucketSizes |-> 0]
    /\ lastRun = [bs \in BucketSizes |-> NoRun]
    /\ maxAggregated = [bs \in BucketSizes |-> 0]
    /\ rawTouched = [bs \in BucketSizes |-> FALSE]
    /\ envChanged = [bs \in BucketSizes |-> FALSE]

NoQuery == [kind |-> "cpu", span |-> 0, endAhead |-> 0, requested |-> 0,
            maxQueryPoints |-> 0, retentionHours |-> 0, aggPopulated |-> FALSE,
            aggFails |-> FALSE]

NoPlan == [at |-> 0, span |-> 0, requested |-> 0, retentionHours |-> 0,
           maxQueryPoints |-> 0, start |-> 0, end |-> 0, interval |-> 0,
           bucketSeconds |-> 0]

\* no query has been made
QueryIdle ==
    /\ qInput = NoQuery
    /\ qPhase = "idle"
    /\ qStart = 0
    /\ qEnd = 0
    /\ qInterval = 0
    /\ qSource = 0
    /\ qRows = 0
    /\ qReads = <<>>
    /\ qResult = {}
    /\ qAt = 0
    /\ qPrev = NoPlan

NoFrame == [kind |-> "none", wellFormed |-> TRUE, elements |-> <<>>,
            saveOK |-> <<>>, wrote |-> {}, err |-> FALSE]

\* no frame has been handled
IngestIdle ==
    /\ diskRows = {}
    /\ frames = 0
    /\ dropped = 0
    /\ lastFrame = NoFrame

Callers == {"c1", "c2"}

NoAgent == [seq |-> 0, id |-> "", name |-> "", hostname |-> "", status |-> 0,
            lastSeenAt |-> 0, createdAt |-> 0, updatedAt |-> 0]

NoInfo == [id |-> "", name |-> "", hostname |-> ""]

NoCall == [pc |-> "idle", info |-> NoInfo, key |-> "", existing |-> NoAgent,
           at |-> 0, touched |-> FALSE, result |-> "none"]

\* an empty agents table, no registration running
AgentsInit ==
    /\ agents = {}
    /\ regCalls = [c \in Callers |-> NoCall]
    /\ regCount = 0

\* the tables that hold rows owned by an agent
OwnedTables ==
    {"agents", "metrics", "metrics_agg", "monitor_stats", "audit_results",
     "alert_states", "alert_records", "ssh_login_events"}

\* no agent, no owned row
CascadeInit ==
    /\ owned = [t \in OwnedTables |-> {}]
    /\ inFlight = {}
    /\ deletedOK = {}
    /\ stores = 0

NoStatusCall == [id |-> "", status |-> 0]

\* InitStatus has not run
StartupIdle ==
    /\ initPC = "idle"
    /\ initList = {}
    /\ statusCall = NoStatusCall
    /\ statusCount = 0

\* an empty property table, InitializeDefaultConfigs has not run
DefaultsIdle ==
    /\ properties = <<>>
    /\ dcPC = "idle"
    /\ dcIndex = 0
    /\ dcRuns = 0
    /\ dcBefore = <<>>
    /\ dcPrevOK = FALSE

NoNotification ==
    [type |-> "", enabled |-> FALSE, traffic |-> FALSE, sshLogin |-> FALSE,
     tamper |-> FALSE, channels |-> <<>>, configOK |-> TRUE, channelsOK |-> TRUE,
     notifierOK |-> TRUE]

\* no notification is being sent
NotifyIdle ==
    /\ nInput = NoNotification
    /\ nPhase = "idle"
    /\ handed = <<>>
    /\ notifierCalls = 0
    /\ nResult = "nil"

NoPublicIPConfig ==
    [enabled |-> FALSE, intervalSeconds |-> 0, ipv4Enabled |-> FALSE,
     ipv6Enabled |-> FALSE, ipv4Scope |-> "all", ipv6Scope |-> "all",
     ipv4AgentIds |-> {}, ipv6AgentIds |-> {}]

\* the public-IP scheduler is not started, the context is live
PushIdle ==
    /\ cancelled = FALSE
    /\ pConfig = NoPublicIPConfig
    /\ clients = {}
    /\ pushPC = "returned"
    /\ pushConfigOK = TRUE
    /\ pushList = {}
    /\ pushClients = {}
    /\ pushFrames = {}
    /\ attempts = [a \in Agents |-> 0]
    /\ failedPrev = {}
    /\ pushTick = 0

\* no DELETE of alert records was requested
ClearIdle ==
    /\ clearReq = "none"
    /\ clearCount = 0

\* no offline check was made
OfflineIdle == scanLog = <<>>

\* no sample read has failed
SamplingIdle ==
    /\ readFailed = <<>>
    /\ readFailures = 0

\* the position of a scan between its two writes: none
NoScan == [phase |-> "idle", id |-> <<"", "">>, state |-> ZeroState(<<"", "">>)]

\* no scan is in progress and the server was never stopped
StopIdle ==
    /\ scanPC = NoScan
    /\ crashes = 0

NoDelete == [id |-> "", failAt |-> 0, err |-> FALSE]

\* DeleteAgent was not called
AtomicIdle ==
    /\ deleteResult = NoDelete
    /\ deleteCalls = 0

\* the metric kinds of runAggregation, the first two of its eight
TickKinds == <<"cpu", "memory">>

\* the bucket widths of runAggregation
TickBuckets == <<60, 300, 3600>>

TickPairSet ==
    {<<TickKinds[k], TickBuckets[b]>> :
        k \in 1..Len(TickKinds), b \in 1..Len(TickBuckets)}

NoAttempt == [outcome |-> "none", readOK |-> TRUE, fromProgress |-> FALSE,
              start |-> 0, endBucket |-> 0, tick |-> 0]

\* no rollup tick has run and no pair has a progress row
TickIdle ==
    /\ tickLeft = <<>>
    /\ pairProgress = [p \in TickPairSet |-> 0]
    /\ pairLast = [p \in TickPairSet |-> NoAttempt]
    /\ pairPrev = [p \in TickPairSet |-> NoAttempt]
    /\ pairAggEnd = [p \in TickPairSet |-> 0]
    /\ tickNo = 0
    /\ tickFailures = 0

\* the state values generateState can return
OAuthStates == {"s1", "s2"}

NoExchange == [pc |-> "idle", state |-> "", result |-> "none"]

\* no state was issued and no callback is running
OAuthIdle ==
    /\ stateStore = <<>>
    /\ exchangeCalls = [c \in Callers |-> NoExchange]
    /\ issuedAt = [st \in OAuthStates |-> 0]
    /\ accepted = [st \in OAuthStates |-> 0]
    /\ oauthOps = 0

\* the cleanup and aggregation tasks are not started
LoopsIdle ==
    /\ cleanupPC = "idle"
    /\ aggPC = "idle"
    /\ aggLeft = <<>>
    /\ pcAtCancel = <<>>

ExtInit ==
    /\ CascadeInit
    /\ StartupIdle
    /\ DefaultsIdle
    /\ NotifyIdle
    /\ PushIdle
    /\ LoopsIdle
    /\ ClearIdle
    /\ OfflineIdle
    /\ SamplingIdle
    /\ StopIdle
    /\ AtomicIdle
    /\ TickIdle
    /\ OAuthIdle

InitAlert ==
    /\ now = 1000
    /\ ticks = 0
    /\ AlertTablesInit
    /\ PropertyInit
    /\ RollupTablesInit
    /\ QueryIdle
    /\ IngestIdle
    /\ AgentsInit
    /\ ExtInit

vars == <<now, ticks, alertVars, propVars, rollupVars, queryVars, ingestVars,
          agentVars, extVars>>

NextAlert == Scan \/ ClearAlertRecords \/ CleanupStates \/ AdvanceClock

SpecAlert == InitAlert /\ [][NextAlert]_vars

----------------------------------------------------------------------------
(* Claims about the alert engine *)

RecordKey(r) == <<r.agentID, r.alertType>>

FiringRecordsOf(records, rid) ==
    {r \in records : r.id = rid /\ r.status = "firing"}

\* C1: every alert_state row with isFiring = true has lastRecordID # 0 and
\* exactly one alert_record with id = lastRecordID and status = firing,
\* after any sequence of scans, record clears and state collection.
C1_FiringStateHasItsRecord ==
    \A id \in DOMAIN alertStates :
        alertStates[id].isFiring =>
            /\ alertStates[id].lastRecordID # 0
            /\ Cardinality(FiringRecordsOf(alertRecords,
                                           alertStates[id].lastRecordID)) = 1

\* records the step inserted
NewRecords == {r \in alertRecords' : r.id \notin {x.id : x \in alertRecords}}

\* a step inserts a record only as the transition to firing of a key that
\* was not firing and whose state has been above threshold for the duration
FireOnlyWhenDue ==
    \A r \in NewRecords :
        LET id == RecordKey(r)
        IN  /\ r.status = "firing" /\ r.firedAt = now /\ r.actualValue > CPUThreshold
            /\ ~(id \in DOMAIN alertStates /\ alertStates[id].isFiring)
            /\ id \in DOMAIN alertStates'
            /\ now - alertStates'[id].startTime >= CPUDuration * 1000
            /\ alertStates'[id].isFiring
            /\ alertStates'[id].lastRecordID = r.id

ResolveStep(id, v) ==
    LET wasFiring == id \in DOMAIN alertStates /\ alertStates[id].isFiring
    IN  /\ id \notin DOMAIN alertStates'
        /\ {r.id : r \in alertRecords'} = {r.id : r \in alertRecords}
        /\ IF wasFiring
           THEN /\ \E r \in alertRecords' :
                      /\ r.id = alertStates[id].lastRecordID
                      /\ r.status = "resolved"
                      /\ r.resolvedAt = now
                /\ \A r \in alertRecords' :
                      r.id # alertStates[id].lastRecordID => r \in alertRecords
           ELSE alertRecords' = alertRecords
        /\ \A r \in alertRecords' : RecordKey(r) = id => r.status # "firing"

C3_ResolvedAtFirstScanBelow ==
    /\ [][\A id \in StateIDs, v \in SampleValues :
            (v <= CPUThreshold /\ CheckAlert(id, v)) => ResolveStep(id, v)]_vars
    /\ [](\A r \in alertRecords :
            r.status = "resolved" => r.resolvedAt >= r.firedAt)

----------------------------------------------------------------------------
(* Property store: PropertyService.Get / Set over the table and the cache *)

PropValues == {1, 2}

\* the expiry Get gives a cache entry (time.Hour)
CacheTTLMs == 3600 * 1000

PropClockSteps == {60 * 1000, CacheTTLMs}

\* cache.Get: an entry that is present and has not expired
CacheHit(c, t) == c.present /\ t < c.expiresAt

\* Get, first step: s.cache.Get(id); a hit returns the cached property
GetStart(r) ==
    /\ getPC[r] \in {"idle", "done"}
    /\ IF CacheHit(propCache, now)
       THEN /\ getVal' = [getVal EXCEPT ![r] = propCache.value]
            /\ getPC' = [getPC EXCEPT ![r] = "done"]
       ELSE /\ getVal' = [getVal EXCEPT ![r] = 0]
            /\ getPC' = [getPC EXCEPT ![r] = "missed"]
    /\ getExpect' = [getExpect EXCEPT ![r] =
                        IF setPC = "idle" THEN lastSetValue ELSE 0]
    /\ UNCHANGED <<propRow, propCache, setPC, setVal, setCount, lastSetValue>>
    /\ UNCHANGED <<now, ticks, alertVars, rollupVars, queryVars, ingestVars, agentVars, extVars>>

\* Get, second step: s.repo.FindById(ctx, id); an error is returned as it is
GetFind(r) ==
    /\ getPC[r] = "missed"
    /\ getVal' = [getVal EXCEPT ![r] = propRow]
    /\ getPC' = [getPC EXCEPT ![r] = IF propRow = 0 THEN "done" ELSE "loaded"]
    /\ UNCHANGED <<propRow, propCache, getExpect, setPC, setVal, setCount,
                   lastSetValue>>
    /\ UNCHANGED <<now, ticks, alertVars, rollupVars, queryVars, ingestVars, agentVars, extVars>>

\* Get, third step: s.cache.Set(id, &property, time.Hour) and return
GetFill(r) ==
    /\ getPC[r] = "loaded"
    /\ propCache' = [present |-> TRUE, value |-> getVal[r],
                     expiresAt |-> now + CacheTTLMs]
    /\ getPC' = [getPC EXCEPT ![r] = "done"]
    /\ UNCHANGED <<propRow, getVal, getExpect, setPC, setVal, setCount,
                   lastSetValue>>
    /\ UNCHANGED <<now, ticks, alertVars, rollupVars, queryVars, ingestVars, agentVars, extVars>>

\* Set, first step: s.repo.Save(ctx, property)
SetSave(v) ==
    /\ setPC = "idle"
    /\ setCount < MaxSets
    /\ propRow' = v
    /\ setVal' = v
    /\ setPC' = "saved"
    /\ setCount' = setCount + 1
    /\ getExpect' = [r \in Readers |-> 0]
    /\ UNCHANGED <<propCache, getPC, getVal, lastSetValue>>
    /\ UNCHANGED <<now, ticks, alertVars, rollupVars, queryVars, ingestVars, agentVars, extVars>>

\* Set, second step: s.cache.Delete(id) and return nil
SetInvalidate ==
    /\ setPC = "saved"
    /\ propCache' = NoEntry
    /\ setPC' = "idle"
    /\ lastSetValue' = setVal
    /\ UNCHANGED <<propRow, getPC, getVal, getExpect, setVal, setCount>>
    /\ UNCHANGED <<now, ticks, alertVars, rollupVars, queryVars, ingestVars, agentVars, extVars>>

AdvancePropClock ==
    \E dt \in PropClockSteps :
        /\ ticks < MaxPropTicks
        /\ now' = now + dt
        /\ ticks' = ticks + 1
        /\ UNCHANGED <<alertVars, propVars, rollupVars, queryVars, ingestVars, agentVars, extVars>>

InitProperty ==
    /\ now = 1000
    /\ ticks = 0
    /\ AlertTablesInit
    /\ PropertyInit
    /\ RollupTablesInit
    /\ QueryIdle
    /\ IngestIdle
    /\ AgentsInit
    /\ ExtInit

NextProperty ==
    \/ \E r \in Readers : GetStart(r)
    \/ \E r \in Readers : GetFind(r)
    \/ \E r \in Readers : GetFill(r)
    \/ \E v \in PropValues : SetSave(v)
    \/ SetInvalidate
    \/ AdvancePropClock

SpecProperty == InitProperty /\ [][NextProperty]_vars

\* C4: once Set(id, v) has returned and until a later Set(id, _) starts,
\* every Get(id) that starts returns v, whatever Get calls ran alongside
\* the Set.
C4_GetAfterSetReturnsValue ==
    \A r \in Readers :
        (getPC[r] = "done" /\ getExpect[r] # 0) => getVal[r] = getExpect[r]

----------------------------------------------------------------------------
(* Metric rollup: HandleMetricData, aggregateMetric and the progress table *)

defaultMetricsRetentionHours == 24 * 7

\* the clock starts more than a default retention window after the epoch, on
\* the last millisecond of a bucket of every width
RollupBase == (defaultMetricsRetentionHours + 1) * 3600 * 1000 - 1

\* stored RetentionHours: none (0) or one hour
RetentionChoices == {0, 1}

\* usagePercent of the samples
CpuValues == {10, 90}

\* clock steps: one millisecond and one hour, the widest bucket and the
\* shortest retention
RollupClockSteps == {1, 3600000}

\* getMetricsConfig: the stored value when it is positive, else the default
RetentionMs(stored) ==
    (IF stored > 0 THEN stored ELSE defaultMetricsRetentionHours) * 3600 * 1000

\* the division by bucketMs left out: the time itself
AlignDownNone(t, bucketMs) == t

AlignDown(t, bucketMs) == (t \div bucketMs) * bucketMs

\* HandleMetricData, first statement: now := time.Now().UnixMilli(); the
\* decoded sample carries that timestamp
StampMetric(v) ==
    /\ nextRawID <= MaxRaw
    /\ pendingRows' = pendingRows \cup
          {[id |-> nextRawID, agentID |-> "a1", timestamp |-> now,
            usagePercent |-> v]}
    /\ nextRawID' = nextRawID + 1
    /\ UNCHANGED <<retentionHours, rawRows, savedRows, aggRows, runs, failures, progress,
                   lastRun, maxAggregated, rawTouched, envChanged>>
    /\ UNCHANGED <<now, ticks, alertVars, propVars, queryVars, ingestVars, agentVars, extVars>>

\* HandleMetricData, last statement: s.metricRepo.SaveCPUMetric(ctx, metric)
SaveCPUMetric ==
    \E r \in pendingRows :
        /\ rawRows' = rawRows \cup {r}
        /\ savedRows' = savedRows \cup {r}
        /\ pendingRows' = pendingRows \ {r}
        /\ rawTouched' = [bs \in BucketSizes |-> TRUE]
        /\ UNCHANGED <<retentionHours, nextRawID, aggRows, runs, failures, progress,
                       lastRun, maxAggregated, envChanged>>
        /\ UNCHANGED <<now, ticks, alertVars, propVars, queryVars, ingestVars, agentVars, extVars>>

\* the metrics configuration is rewritten through the property store
SetRetention ==
    \E h \in RetentionChoices :
        /\ h # retentionHours
        /\ retentionHours' = h
        /\ envChanged' = [bs \in BucketSizes |-> TRUE]
        /\ UNCHANGED <<rawRows, savedRows, pendingRows, nextRawID, aggRows, runs, failures,
                       progress, lastRun, maxAggregated, rawTouched>>
        /\ UNCHANGED <<now, ticks, alertVars, propVars, queryVars, ingestVars, agentVars, extVars>>

RECURSIVE SumUsage(_)
SumUsage(rows) ==
    IF rows = {} THEN 0
    ELSE LET r == CHOOSE x \in rows : TRUE
         IN  r.usagePercent + SumUsage(rows \ {r})

AggKey(r) == <<r.agentID, r.bucketSeconds, r.bucketStart>>

\* the aggregate row of one (agent, bucket): avg, min and max of the raw rows
AggRowOf(rows, agent, bucketSeconds, bucketStart) ==
    [agentID |-> agent, bucketSeconds |-> bucketSeconds, bucketStart |-> bucketStart,
     avgUsage |-> SumUsage(rows) \div Cardinality(rows),
     minUsage |-> CHOOSE m \in {r.usagePercent : r \in rows} :
                     \A r \in rows : m <= r.usagePercent,
     maxUsage |-> CHOOSE m \in {r.usagePercent : r \in rows} :
                     \A r \in rows : m >= r.usagePercent]

\* the rows an aggregate step computes from the raw rows in [start, end]
BucketRows(raw, bucketSeconds, start, end) ==
    LET bucketMs == bucketSeconds * 1000
        inRange == {r \in raw : start <= r.timestamp /\ r.timestamp <= end}
        keys == {<<r.agentID, AlignDown(r.timestamp, bucketMs)>> : r \in inRange}
    IN  {AggRowOf({r \in inRange : r.agentID = k[1]
                                   /\ AlignDown(r.timestamp, bucketMs) = k[2]},
                  k[1], bucketSeconds, k[2]) : k \in keys}

\* the aggregate step written as a plain insert of the computed rows
AggregateCPUToAggInsertOnly(table, raw, bucketSeconds, start, end) ==
    table (+) SetToBag(BucketRows(raw, bucketSeconds, start, end))

\* MetricRepo.AggregateCPUToAgg: the computed rows are upserted on
\* (agentID, bucketSeconds, bucketStart)
AggregateCPUToAgg(table, raw, bucketSeconds, start, end) ==
    LET new == BucketRows(raw, bucketSeconds, start, end)
        kept == {x \in DOMAIN table : AggKey(x) \notin {AggKey(n) : n \in new}}
    IN  [x \in kept |-> table[x]] (+) SetToBag(new)

\* getAggregationStart without the alignment of the retention boundary
getAggregationStartUnaligned(bucketSeconds, readOK) ==
    IF readOK /\ progress[bucketSeconds] > 0
    THEN progress[bucketSeconds] + bucketSeconds * 1000
    ELSE now - RetentionMs(retentionHours)

\* getAggregationStart: the bucket after lastBucket when the progress row is
\* read and positive, else the retention boundary aligned down
getAggregationStart(bucketSeconds, readOK) ==
    IF readOK /\ progress[bucketSeconds] > 0
    THEN progress[bucketSeconds] + bucketSeconds * 1000
    ELSE AlignDown(now - RetentionMs(retentionHours), bucketSeconds * 1000)

\* aggregateMetric that stores the start of the range
ProgressToStoreStart(start, endBucket) == start

\* the bucket aggregateMetric passes to UpsertAggregationProgress
ProgressToStore(start, endBucket) == endBucket

\* aggregateMetric that stores the progress although the aggregate step failed
ProgressAfterNoReturn(prog, bucketSeconds, start, endBucket, aggOK, storeOK) ==
    IF storeOK
    THEN [prog EXCEPT ![bucketSeconds] = ProgressToStore(start, endBucket)]
    ELSE prog

\* aggregateMetric, after the range is chosen: a failed aggregate step
\* returns; UpsertAggregationProgress writes the bucket unless it fails
ProgressAfter(prog, bucketSeconds, start, endBucket, aggOK, storeOK) ==
    IF aggOK /\ storeOK
    THEN [prog EXCEPT ![bucketSeconds] = ProgressToStore(start, endBucket)]
    ELSE prog

Max(a, b) == IF a >= b THEN a ELSE b

\* one call of aggregateMetric for the cpu tables and one bucket width;
\* readOK, aggOK and storeOK are the outcomes of GetAggregationProgress,
\* of the aggregate step and of UpsertAggregationProgress
aggregateMetric(bucketSeconds, readOK, aggOK, storeOK) ==
    LET bucketMs == bucketSeconds * 1000
        start == getAggregationStart(bucketSeconds, readOK)
        endBucket == AlignDown(now - bucketSeconds * 1000, bucketMs)
        end == endBucket + bucketMs - 1
        skip == endBucket <= start
        outcome == IF skip THEN "skip"
                   ELSE IF ~aggOK THEN "aggfail"
                   ELSE IF ~storeOK THEN "storefail"
                   ELSE "ok"
        failed == ~(readOK /\ aggOK /\ storeOK)
    IN  /\ runs < MaxRuns
        /\ runs' = runs + 1
        /\ failed => failures < MaxFailures
        /\ failures' = IF failed THEN failures + 1 ELSE failures
        /\ aggRows' = IF skip \/ ~aggOK THEN aggRows
                      ELSE AggregateCPUToAgg(aggRows, rawRows, bucketSeconds,
                                             start, end)
        /\ progress' = IF skip THEN progress
                       ELSE ProgressAfter(progress, bucketSeconds, start, endBucket,
                                          aggOK, storeOK)
        /\ maxAggregated' = IF skip \/ ~aggOK THEN maxAggregated
                            ELSE [maxAggregated EXCEPT ![bucketSeconds] =
                                      Max(@, endBucket)]
        /\ lastRun' = [lastRun EXCEPT ![bucketSeconds] =
                          [outcome |-> outcome, readOK |-> readOK,
                           start |-> start, endBucket |-> endBucket]]
        /\ rawTouched' = [rawTouched EXCEPT ![bucketSeconds] = FALSE]
        /\ envChanged' = [envChanged EXCEPT ![bucketSeconds] = FALSE]
        /\ UNCHANGED <<retentionHours, rawRows, savedRows, pendingRows, nextRawID>>
        /\ UNCHANGED <<now, ticks, alertVars, propVars, queryVars, ingestVars, agentVars, extVars>>

AdvanceRollupClock ==
    \E dt \in RollupClockSteps :
        /\ ticks < MaxRollupTicks
        /\ now' = now + dt
        /\ ticks' = ticks + 1
        /\ envChanged' = [bs \in BucketSizes |-> TRUE]
        /\ UNCHANGED <<retentionHours, rawRows, savedRows, pendingRows, nextRawID, aggRows,
                       runs, failures, progress, lastRun, maxAggregated, rawTouched>>
        /\ UNCHANGED <<alertVars, propVars, queryVars, ingestVars, agentVars, extVars>>

InitRollup ==
    /\ now = RollupBase
    /\ ticks = 0
    /\ AlertTablesInit
    /\ PropertyInit
    /\ RollupTablesInit
    /\ QueryIdle
    /\ IngestIdle
    /\ AgentsInit
    /\ ExtInit

NextRollup ==
    \/ \E v \in CpuValues : StampMetric(v)
    \/ SaveCPUMetric
    \/ SetRetention
    \/ \E bs \in BucketSizes, readOK, aggOK, storeOK \in BOOLEAN :
           aggregateMetric(bs, readOK, aggOK, storeOK)
    \/ AdvanceRollupClock

SpecRollup == InitRollup /\ [][NextRollup]_vars

----------------------------------------------------------------------------
(* Claims about the rollup *)

\* the step is a call of aggregateMetric for the width bs
RollupStep(bs) ==
    \E readOK, aggOK, storeOK \in BOOLEAN : aggregateMetric(bs, readOK, aggOK, storeOK)

\* C5 as stated: after every completed call of aggregateMetric for a width,
\* whether it aggregated, skipped, failed in the aggregate step or failed
\* while storing progress, lastBucket is the largest bucketStart for which
\* aggregation has been performed.
C5_ProgressIsLargestAggregated ==
    \A bs \in BucketSizes :
        lastRun[bs].outcome # "none" => progress[bs] = maxAggregated[bs]

\* C5 amended: lastBucket never exceeds the largest aggregated bucketStart;
\* a call that stored its progress makes them equal; a call that skipped or
\* failed in the aggregate step leaves both as they were; a call that
\* aggregated and failed while storing progress leaves lastBucket as it was,
\* behind the endBucket it aggregated when that bucket is a new one.
C5_ProgressIsLargestStored ==
    /\ [](\A bs \in BucketSizes : progress[bs] <= maxAggregated[bs])
    /\ [][\A bs \in BucketSizes :
            RollupStep(bs) =>
                /\ lastRun'[bs].outcome = "ok" =>
                      /\ progress'[bs] = maxAggregated'[bs]
                      /\ progress'[bs] = lastRun'[bs].endBucket
                /\ lastRun'[bs].outcome = "storefail" =>
                      /\ progress'[bs] = progress[bs]
                      /\ maxAggregated'[bs] = lastRun'[bs].endBucket
                      /\ progress[bs] < lastRun'[bs].endBucket =>
                            progress'[bs] < maxAggregated'[bs]
                /\ lastRun'[bs].outcome \in {"skip", "aggfail"} =>
                      /\ progress'[bs] = progress[bs]
                      /\ maxAggregated'[bs] = maxAggregated[bs]]_vars

\* a call stored its progress after an earlier call had aggregated
C5_Witness ==
    \E bs \in BucketSizes :
        /\ lastRun[bs].outcome = "ok"
        /\ runs = 2
        /\ progress[bs] = maxAggregated[bs]
        /\ progress[bs] > RollupBase

\* C6: lastBucket of a width never decreases, whatever the call does: skip,
\* failed aggregate step, failed progress read with the fallback to the
\* retention boundary, and across changes of the retention setting.
C6_ProgressNeverDecreases ==
    [][\A bs \in BucketSizes : progress'[bs] >= progress[bs]]_vars

\* progress was advanced, the retention setting was changed, and a call whose
\* progress read failed has run
C6_Witness ==
    \E bs \in BucketSizes :
        /\ progress[bs] > 0
        /\ retentionHours # 0
        /\ runs >= 2
        /\ failures = 1
        /\ lastRun[bs].outcome = "ok"
        /\ ~lastRun[bs].readOK

\* no two aggregate rows share (agentID, bucketSeconds, bucketStart)
UniqueAggKeys ==
    \A x \in DOMAIN aggRows :
        /\ aggRows[x] = 1
        /\ \A y \in DOMAIN aggRows : AggKey(x) = AggKey(y) => x = y

\* the rows of width bs whose bucket lies in the range of the last call
RowsOfLastRange(table, bs) ==
    [x \in {r \in DOMAIN table :
               /\ r.bucketSeconds = bs
               /\ r.bucketStart >= AlignDown(lastRun[bs].start, bs * 1000)
               /\ r.bucketStart <= lastRun[bs].endBucket} |-> table[x]]

\* the last call for bs aggregated and the raw table is as that call read it
AggregatedAndQuiet(bs) ==
    /\ lastRun[bs].outcome \in {"ok", "storefail"}
    /\ ~rawTouched[bs]

\* a call that follows leaves the rows of the re-aggregated range as they were
SameRowsForRange ==
    \A bs \in BucketSizes :
        (RollupStep(bs) /\ AggregatedAndQuiet(bs)) =>
            RowsOfLastRange(aggRows', bs) = RowsOfLastRange(aggRows, bs)

\* a call that follows at once leaves the whole table as it was
SameTableAtOnce ==
    \A bs \in BucketSizes :
        (RollupStep(bs) /\ AggregatedAndQuiet(bs) /\ ~envChanged[bs]) =>
            aggRows' = aggRows

SameTableAtOnceWhenProgressRead ==
    \A bs \in BucketSizes :
        \A aggOK, storeOK \in BOOLEAN :
            (/\ aggregateMetric(bs, TRUE, aggOK, storeOK)
             /\ AggregatedAndQuiet(bs)
             /\ ~envChanged[bs]
             /\ lastRun[bs].readOK) => aggRows' = aggRows

ReadsOnlyBeforeGrace ==
    \A bs \in BucketSizes :
        (RollupStep(bs) /\ lastRun'[bs].outcome \in {"ok", "storefail"}) =>
            lastRun'[bs].endBucket + bs * 1000 - 1 < now - bs * 1000

\* no HandleMetricData call is in flight with a row of a bucket that the
\* progress row records as rolled up
NoInFlightRowInDoneBucket ==
    \A bs \in BucketSizes : \A r \in pendingRows :
        progress[bs] > 0 => AlignDown(r.timestamp, bs * 1000) > progress[bs]

\* a row is inserted only into a bucket that a later call will aggregate
InsertedRowWillBeAggregated ==
    \A bs \in BucketSizes : \A r \in rawRows' \ rawRows :
        progress[bs] > 0 => AlignDown(r.timestamp, bs * 1000) > progress[bs]

\* C8: a call of aggregateMetric reads only raw rows with timestamp <
\* now - bucketSeconds, it never closes a bucket for which a HandleMetricData
\* call has stamped a row and not yet inserted it, and so every raw row is
\* inserted into a bucket that is still to be aggregated.
C8_NoRaceWithIngestion ==
    /\ [][ReadsOnlyBeforeGrace]_vars
    /\ []NoInFlightRowInDoneBucket
    /\ [][InsertedRowWillBeAggregated]_vars

\* the bucket a timestamp lies in: the multiple b of bucketMs with
\* b <= t <= b + bucketMs - 1
BucketOf(t, bucketMs) == t - (t % bucketMs)

\* the raw rows of one agent that lie in the bucket starting at b
SamplesOfBucket(raw, agent, b, bucketMs) ==
    {r \in raw : /\ r.agentID = agent
                 /\ b <= r.timestamp
                 /\ r.timestamp <= b + bucketMs - 1}

\* the call of aggregateMetric for the width bs, just made, ran its
\* aggregate step
Aggregated(bs) == lastRun'[bs].outcome \in {"ok", "storefail"}

\* C14: a raw sample with timestamp exactly bucketStart + bucketSeconds*1000
\* - 1 is aggregated into the bucket bucketStart and a sample with timestamp
\* bucketStart + bucketSeconds*1000 into the next bucket; the range
\* [start, endBucket + bucketMs - 1] passed to one aggregation is a whole
\* number of buckets, so every aggregate row the call writes is computed
\* from all the raw rows of its bucket.
C14_WholeBuckets ==
    [][\A bs \in BucketSizes :
          (RollupStep(bs) /\ Aggregated(bs)) =>
              LET bucketMs == bs * 1000
                  start == lastRun'[bs].start
                  end == lastRun'[bs].endBucket + bucketMs - 1
              IN  /\ start % bucketMs = 0
                  /\ (end + 1) % bucketMs = 0
                  /\ end + 1 - start >= bucketMs
                  /\ \A r \in rawRows :
                        (start <= r.timestamp /\ r.timestamp <= end) =>
                            LET b == BucketOf(r.timestamp, bucketMs)
                                rows == {a \in BagToSet(aggRows') :
                                            AggKey(a) = <<r.agentID, bs, b>>}
                            IN  /\ start <= b /\ b + bucketMs - 1 <= end
                                /\ rows = {AggRowOf(SamplesOfBucket(rawRows,
                                                       r.agentID, b, bucketMs),
                                                     r.agentID, bs, b)}
                                /\ CopiesIn(CHOOSE a \in rows : TRUE, aggRows') = 1
       ]_vars

\* a sample in the last millisecond of a bucket and a sample in the first
\* millisecond of the next one have each been aggregated, into two rows
C14_Witness ==
    \E bs \in BucketSizes : \E r1, r2 \in rawRows :
        LET bucketMs == bs * 1000
        IN  /\ r2.timestamp = r1.timestamp + 1
            /\ r2.timestamp % bucketMs = 0
            /\ lastRun[bs].outcome = "ok"
            /\ \E a1, a2 \in BagToSet(aggRows) :
                   /\ AggKey(a1) = <<r1.agentID, bs, r2.timestamp - bucketMs>>
                   /\ AggKey(a2) = <<r2.agentID, bs, r2.timestamp>>
                   /\ a1.maxUsage = r1.usagePercent
                   /\ a2.maxUsage = r2.usagePercent

----------------------------------------------------------------------------
(* Query planner: normalizeTimeRange, DetermineInterval and GetMetrics *)

defaultMaxQueryPoints == 720

allowedIntervals ==
    <<1, 2, 5, 10, 15, 30, 60, 120, 300, 600, 900, 1800, 3600, 7200, 14400>>

\* the clock of the queries: sixteen days after the epoch, a bucket boundary
QueryNow == 16 * 24 * 3600 * 1000

\* end - start of the requested range, in milliseconds: reversed, empty, one
\* second, the limits of rows of the duration table, and 15 days
QuerySpans ==
    {-1000, 0, 1000, 60000, 90000, 300000, 3600000, 10800000, 86400000,
     259200000, 604800000, 1209600000, 1296000000}

\* end of the requested range relative to the clock: two hours back (before
\* the boundary of a one-hour retention), one millisecond back, the clock
QueryEndAhead == {-7200000, -1, 0}

\* the interval argument: absent, small, off the allowed set, beyond it
QueryRequested == {-5, 0, 1, 7, 60, 3600, 20000}

\* stored MaxQueryPoints: none (0), 1, 10, 720
MaxPointsChoices == {0, 1, 10, defaultMaxQueryPoints}

\* stored RetentionHours: none (0), one hour, fifteen days
QueryRetentionChoices == {0, 1, 360}

\* Go integer division truncates toward zero
TruncDiv(a, b) == IF a >= 0 THEN a \div b ELSE -((-a) \div b)

\* math.Ceil of a / b for b > 0
CeilDiv(a, b) == (a + b - 1) \div b

\* getMetricsConfig: the stored value when it is positive, else the default
MaxPoints(stored) == IF stored > 0 THEN stored ELSE defaultMaxQueryPoints

\* alignInterval with < in place of <=
alignIntervalStrict(interval) ==
    LET hits == {i \in DOMAIN allowedIntervals : interval < allowedIntervals[i]}
    IN  IF hits = {} THEN allowedIntervals[Len(allowedIntervals)]
        ELSE allowedIntervals[CHOOSE i \in hits : \A j \in hits : i <= j]

\* alignInterval: the first candidate, in the order of the list, that the
\* interval does not exceed; the last candidate when there is none
alignInterval(interval) ==
    LET hits == {i \in DOMAIN allowedIntervals : interval <= allowedIntervals[i]}
    IN  IF hits = {} THEN allowedIntervals[Len(allowedIntervals)]
        ELSE allowedIntervals[CHOOSE i \in hits : \A j \in hits : i <= j]

maxInt(a, b) == IF a > b THEN a ELSE b

\* calculateBaseInterval without the case of five minutes
calculateBaseIntervalNoFive(start, end) ==
    LET duration == TruncDiv(end - start, 1000)
    IN  IF duration <= 60 THEN 2
        ELSE IF duration <= 15 * 60 THEN 15
        ELSE IF duration <= 30 * 60 THEN 30
        ELSE IF duration <= 60 * 60 THEN 60
        ELSE IF duration <= 3 * 60 * 60 THEN 180
        ELSE IF duration <= 6 * 60 * 60 THEN 300
        ELSE IF duration <= 12 * 60 * 60 THEN 600
        ELSE IF duration <= 24 * 60 * 60 THEN 900
        ELSE IF duration <= 3 * 24 * 60 * 60 THEN 1800
        ELSE IF duration <= 7 * 24 * 60 * 60 THEN 3600
        ELSE IF duration <= 14 * 24 * 60 * 60 THEN 7200
        ELSE 14400

calculateBaseInterval(start, end) ==
    LET duration == TruncDiv(end - start, 1000)
    IN  IF duration <= 60 THEN 2
        ELSE IF duration <= 5 * 60 THEN 5
        ELSE IF duration <= 15 * 60 THEN 15
        ELSE IF duration <= 30 * 60 THEN 30
        ELSE IF duration <= 60 * 60 THEN 60
        ELSE IF duration <= 3 * 60 * 60 THEN 180
        ELSE IF duration <= 6 * 60 * 60 THEN 300
        ELSE IF duration <= 12 * 60 * 60 THEN 600
        ELSE IF duration <= 24 * 60 * 60 THEN 900
        ELSE IF duration <= 3 * 24 * 60 * 60 THEN 1800
        ELSE IF duration <= 7 * 24 * 60 * 60 THEN 3600
        ELSE IF duration <= 14 * 24 * 60 * 60 THEN 7200
        ELSE 14400

adjustIntervalForMaxPoints(start, end, interval, maxPoints) ==
    LET iv == IF interval <= 0 THEN 1 ELSE interval
    IN  IF maxPoints <= 0 THEN alignInterval(iv)
        ELSE IF end - start <= 0 THEN alignInterval(iv)
        ELSE alignInterval(maxInt(iv, CeilDiv(end - start, 1000 * maxPoints)))

DetermineInterval(start, end, requested, storedMaxPoints) ==
    LET interval == IF requested <= 0 THEN calculateBaseInterval(start, end)
                    ELSE requested
    IN  adjustIntervalForMaxPoints(start, end, interval, MaxPoints(storedMaxPoints))

\* normalizeTimeRange with end < start in place of end <= start
normalizeTimeRangeStrict(start, end, t, storedRetention) ==
    LET retentionBoundary == t - RetentionMs(storedRetention)
        s1 == IF start < retentionBoundary THEN retentionBoundary ELSE start
        e1 == IF end < s1 THEN s1 + 1000 ELSE end
    IN  <<s1, e1>>

normalizeTimeRange(start, end, t, storedRetention) ==
    LET retentionBoundary == t - RetentionMs(storedRetention)
        s1 == IF start < retentionBoundary THEN retentionBoundary ELSE start
        e1 == IF end <= s1 THEN s1 + 1000 ELSE end
    IN  <<s1, e1>>

\* the routing of GetMetrics with > in place of >=
BucketForStrict(interval) ==
    IF interval > 3600 THEN 3600
    ELSE IF interval > 300 THEN 300
    ELSE IF interval > 60 THEN 60
    ELSE 0

\* GetMetrics: the aggregate table a cpu query of this interval is routed to
\* (0: the raw table)
BucketFor(interval) ==
    IF interval >= 3600 THEN 3600
    ELSE IF interval >= 300 THEN 300
    ELSE IF interval >= 60 THEN 60
    ELSE 0

\* GetCPUMetricsAgg(agentID, start, end, bucketSeconds) on a table that holds
\* a row for every bucket: the rows with bucketStart in [start, end]
AggRowCount(start, end, bucketSeconds) ==
    LET bucketMs == bucketSeconds * 1000
        n == (end \div bucketMs) - CeilDiv(start, bucketMs) + 1
    IN  IF n > 0 THEN n ELSE 0

\* GetCPUMetrics(agentID, start, end, interval): one row for each interval
\* of the range
RawRowCount(start, end, interval) == CeilDiv(end - start, interval * 1000)

QueryStart(q) == now + q.endAhead - q.span
QueryEnd(q) == now + q.endAhead

\* a handler calls DetermineInterval with the range as it was given
DetermineIntervalCall ==
    /\ qPhase = "new"
    /\ qPhase' = "planned"
    /\ qStart' = QueryStart(qInput)
    /\ qEnd' = QueryEnd(qInput)
    /\ qInterval' = DetermineInterval(QueryStart(qInput), QueryEnd(qInput),
                                      qInput.requested, qInput.maxQueryPoints)
    /\ UNCHANGED <<qInput, qSource, qRows, qReads, qResult, qAt, qPrev>>
    /\ UNCHANGED <<now, ticks, alertVars, propVars, rollupVars, ingestVars, agentVars, extVars>>

\* the metric kinds of the queries: one with aggregate tables and a case in
\* the switch, one with neither
QueryKinds == {"cpu", "monitor"}

\* GetMetrics: aggCapable, the kinds that have aggregate tables
aggCapable ==
    {"cpu", "memory", "disk", "network", "network_connection", "disk_io",
     "gpu", "temperature"}

\* one repository read: the table (0: raw rows, else the bucket width of the
\* aggregate table), the range, and the last argument of the call
ReadOf(table, start, end, arg) ==
    [table |-> table, start |-> start, end |-> end, arg |-> arg]

\* GetMetrics(ctx, agentID, kind, start, end, interval)
GetMetrics ==
    /\ qPhase = "new"
    /\ LET range == normalizeTimeRange(QueryStart(qInput), QueryEnd(qInput), now,
                                       qInput.retentionHours)
           interval == DetermineInterval(range[1], range[2], qInput.requested,
                                         qInput.maxQueryPoints)
           bucketSeconds == IF qInput.kind \in aggCapable
                            THEN BucketFor(interval) ELSE 0
           useAgg == bucketSeconds > 0
           aggCount == IF useAgg /\ qInput.aggPopulated /\ ~qInput.aggFails
                       THEN AggRowCount(range[1], range[2], bucketSeconds)
                       ELSE 0
           aggRead == IF useAgg
                      THEN <<ReadOf(bucketSeconds, range[1], range[2], bucketSeconds)>>
                      ELSE <<>>
           rawRead == <<ReadOf(0, range[1], range[2], interval)>>
       IN  /\ qStart' = range[1]
           /\ qEnd' = range[2]
           /\ qInterval' = interval
           /\ IF qInput.kind \notin aggCapable
              THEN /\ qSource' = -1
                   /\ qRows' = 0
                   /\ qReads' = <<>>
              ELSE IF aggCount > 0
              THEN /\ qSource' = bucketSeconds
                   /\ qRows' = aggCount
                   /\ qReads' = aggRead
              ELSE /\ qSource' = 0
                   /\ qRows' = RawRowCount(range[1], range[2], interval)
                   /\ qReads' = aggRead \o rawRead
    /\ qPhase' = "served"
    /\ UNCHANGED <<qInput, qResult, qAt, qPrev>>
    /\ UNCHANGED <<now, ticks, alertVars, propVars, rollupVars, ingestVars, agentVars, extVars>>

InitQuery ==
    /\ now = QueryNow
    /\ ticks = 0
    /\ AlertTablesInit
    /\ PropertyInit
    /\ RollupTablesInit
    /\ qInput \in [kind : QueryKinds, span : QuerySpans, endAhead : QueryEndAhead,
                   requested : QueryRequested, maxQueryPoints : MaxPointsChoices,
                   retentionHours : QueryRetentionChoices, aggPopulated : BOOLEAN,
                   aggFails : BOOLEAN]
    /\ qPhase = "new"
    /\ qStart = 0
    /\ qEnd = 0
    /\ qInterval = 0
    /\ qSource = 0
    /\ qRows = 0
    /\ qReads = <<>>
    /\ qResult = {}
    /\ qAt = 0
    /\ qPrev = NoPlan
    /\ IngestIdle
    /\ AgentsInit
    /\ ExtInit

NextQuery == DetermineIntervalCall \/ GetMetrics

SpecQuery == InitQuery /\ [][NextQuery]_vars

----------------------------------------------------------------------------
(* Claims about the query planner *)

\* C9: GetMetrics returns at most maxQueryPoints rows for every start, end,
\* requested interval, retention setting and maxQueryPoints > 0; the 7-day
\* cpu query with no requested interval and maxQueryPoints = 720 is served
\* from the 3600-second aggregate with at most 720 rows.
C9_AtMostMaxQueryPointsRows ==
    qPhase = "served" =>
        /\ qRows <= MaxPoints(qInput.maxQueryPoints)
        /\ (/\ qInput.kind = "cpu"
            /\ qInput.span = 7 * 24 * 3600 * 1000
            /\ qInput.requested = 0
            /\ MaxPoints(qInput.maxQueryPoints) = 720
            /\ qInput.aggPopulated
            /\ ~qInput.aggFails) => (qSource = 3600 /\ qRows <= 720)

\* the table of base intervals: <<longest duration in seconds, interval>>
DurationTable ==
    <<<<60, 2>>, <<300, 5>>, <<900, 15>>, <<1800, 30>>, <<3600, 60>>,
      <<10800, 180>>, <<21600, 300>>, <<43200, 600>>, <<86400, 900>>,
      <<259200, 1800>>, <<604800, 3600>>, <<1209600, 7200>>>>

DurationTableValue(seconds) ==
    LET rows == {i \in DOMAIN DurationTable : seconds <= DurationTable[i][1]}
    IN  IF rows = {} THEN 14400
        ELSE DurationTable[CHOOSE i \in rows : \A j \in rows : i <= j][2]

AllowedSet == {allowedIntervals[i] : i \in DOMAIN allowedIntervals}

\* the interval C10 states for a call
StatedInterval(start, end, requested, maxPoints) ==
    LET base == IF requested > 0 THEN requested
                ELSE DurationTableValue(TruncDiv(end - start, 1000))
        required == CeilDiv(end - start, 1000 * maxPoints)
        m == IF base >= required THEN base ELSE required
    IN  IF m > 14400 THEN 14400
        ELSE CHOOSE a \in AllowedSet :
                 a >= m /\ \A b \in AllowedSet : b >= m => a <= b

\* C10: DetermineInterval returns the smallest member of the allowed set that
\* is >= max(base, ceil(((end - start) / 1000) / maxPoints)), where base is
\* the requested interval when it is positive and the duration-table value
\* otherwise; the result is 14400 when that maximum exceeds 14400.
C10_DetermineIntervalIsSmallestAllowed ==
    qPhase = "planned" =>
        qInterval = StatedInterval(qStart, qEnd, qInput.requested,
                                   MaxPoints(qInput.maxQueryPoints))

\* the max-points budget raised the interval above the base of the table and
\* the result is a member of the allowed set below the cap
C10_Witness ==
    /\ qPhase = "planned"
    /\ qInput.requested = 0
    /\ CeilDiv(qEnd - qStart, 1000 * MaxPoints(qInput.maxQueryPoints))
          > calculateBaseInterval(qStart, qEnd)
    /\ qInterval \in AllowedSet
    /\ qInterval < 14400

\* the first read GetMetrics made, when it made one
FirstRead == qReads[1]

\* the last read GetMetrics made
LastRead == qReads[Len(qReads)]

\* the aggregate read of the call returned rows
AggReadReturnedRows ==
    /\ qInput.aggPopulated
    /\ ~qInput.aggFails
    /\ AggRowCount(qStart, qEnd, FirstRead.table) > 0

\* C11: for an aggregate-capable kind GetMetrics reads the 3600 s aggregate
\* when the final interval >= 3600, the 300 s aggregate when 300 <= interval
\* < 3600, the 60 s aggregate when 60 <= interval < 300 and the raw table when
\* interval < 60; whenever the chosen aggregate read returns no rows or fails,
\* the result is the raw-table read for the same normalized range and interval.
C11_RoutingAndRawFallback ==
    (qPhase = "served" /\ qInput.kind \in aggCapable) =>
        /\ Len(qReads) >= 1
        /\ qInterval >= 3600 => FirstRead.table = 3600
        /\ (300 <= qInterval /\ qInterval < 3600) => FirstRead.table = 300
        /\ (60 <= qInterval /\ qInterval < 300) => FirstRead.table = 60
        /\ qInterval < 60 => (FirstRead.table = 0 /\ Len(qReads) = 1)
        /\ FirstRead.start = qStart /\ FirstRead.end = qEnd
        /\ (FirstRead.table > 0 /\ ~AggReadReturnedRows) =>
              /\ qSource = 0
              /\ LastRead = ReadOf(0, qStart, qEnd, qInterval)
              /\ qRows = RawRowCount(qStart, qEnd, qInterval)
        /\ (FirstRead.table > 0 /\ AggReadReturnedRows) =>
              (qSource = FirstRead.table /\ Len(qReads) = 1)

\* a query at an interval of exactly 300 seconds went to the 300-second
\* aggregate, the read failed, and the raw rows were returned
C11_Witness ==
    /\ qPhase = "served"
    /\ qInput.kind = "cpu"
    /\ qInterval = 300
    /\ qInput.aggFails
    /\ Len(qReads) = 2
    /\ qReads[1].table = 300
    /\ qReads[2] = ReadOf(0, qStart, qEnd, 300)
    /\ qSource = 0

\* the retention boundary of the query
QueryBoundary == now - RetentionMs(qInput.retentionHours)

\* C12: normalizeTimeRange(start, end) returns (start', end') with start' =
\* max(start, now - retention) and end' = end when end > start', otherwise
\* end' = start' + 1000; hence start' >= now - retention and end' > start'
\* for every input, and a range already inside retention with end > start is
\* returned unchanged.
C12_NormalizedRange ==
    qPhase = "served" =>
        LET start == QueryStart(qInput)
            end == QueryEnd(qInput)
        IN  /\ qStart = (IF start >= QueryBoundary THEN start ELSE QueryBoundary)
            /\ end > qStart => qEnd = end
            /\ end <= qStart => qEnd = qStart + 1000
            /\ qStart >= QueryBoundary
            /\ qEnd > qStart
            /\ (start >= QueryBoundary /\ end > start) =>
                  (qStart = start /\ qEnd = end)

\* the requested range lay wholly before the retention boundary: the start
\* was clamped and the end, then at or before it, moved to start' + 1000
C12_Witness ==
    /\ qPhase = "served"
    /\ QueryStart(qInput) < QueryEnd(qInput)
    /\ QueryEnd(qInput) < QueryBoundary
    /\ qStart = QueryBoundary
    /\ qEnd = QueryBoundary + 1000

\* GetMetrics served a cpu query for the most recent 90 seconds with no
\* requested interval
Recent90s ==
    /\ qPhase = "served"
    /\ qInput.kind = "cpu"
    /\ qInput.span = 90000
    /\ qInput.endAhead = 0
    /\ qInput.requested = 0

\* C15 as stated: for GetMetrics over the most recent 90 s with no requested
\* interval, under the default maxQueryPoints, the planner picks base
\* interval 15 s, this interval does not reach any aggregate bucket, and the
\* response is read from raw rows.
C15_Recent90sBase15 ==
    (Recent90s /\ MaxPoints(qInput.maxQueryPoints) = defaultMaxQueryPoints) =>
        /\ calculateBaseInterval(qStart, qEnd) = 15
        /\ qInterval < 60
        /\ qSource = 0
        /\ qReads = <<ReadOf(0, qStart, qEnd, qInterval)>>

\* C15 amended: the planner picks base interval 5 s; with maxQueryPoints >= 3
\* (720 by default) the final interval is below 60, no aggregate table is
\* read, and the response is read from raw rows.
C15_Recent90sBase5 ==
    Recent90s =>
        /\ qStart = now - 90000 /\ qEnd = now
        /\ calculateBaseInterval(qStart, qEnd) = 5
        /\ MaxPoints(qInput.maxQueryPoints) = defaultMaxQueryPoints
              => qInterval = 5
        /\ MaxPoints(qInput.maxQueryPoints) >= 3 =>
              /\ qInterval < 60
              /\ qSource = 0
              /\ qReads = <<ReadOf(0, qStart, qEnd, qInterval)>>

\* the 90-second query under the default configuration, with the aggregate
\* tables populated, answered from raw rows at 5 seconds: 18 rows
C15_Witness ==
    /\ Recent90s
    /\ qInput.maxQueryPoints = 0
    /\ qInput.aggPopulated
    /\ ~qInput.aggFails
    /\ qInterval = 5
    /\ qSource = 0
    /\ qRows = 18

----------------------------------------------------------------------------
(* Retention: cleanupOldMetrics, and GetMetrics over the tables of the model *)

\* the stored RetentionHours of these behaviours: one hour, so that the clock
\* steps carry a sample across the retention boundary
RetentionHoursFixed == 1

\* the start argument of the queries: the epoch, before every boundary, and
\* the clock at start-up; the end argument is the clock
RetentionQueryStarts == {0, RollupBase}

\* the interval argument of the queries: one served from raw rows and one
\* routed to the 60-second aggregate
RetentionQueryRequested == {1, 60}

\* the usage every sample of these behaviours carries
RetentionSampleValue == 90

\* cleanupOldMetrics that forgets the retention period
CleanupBeforeNow(t, stored) == t

\* cleanupOldMetrics: before := time.Now().Add(-retentionDuration).UnixMilli()
CleanupBefore(t, stored) == t - RetentionMs(stored)

\* MetricRepo.DeleteOldMetrics(before): raw rows with timestamp < before go;
\* aggregate rows have a longer retention, beyond the span of a behaviour
DeleteOldMetrics(raw, before) == {r \in raw : r.timestamp >= before}

\* one tick of the retention loop
cleanupOldMetrics ==
    /\ rawRows' = DeleteOldMetrics(rawRows, CleanupBefore(now, retentionHours))
    /\ rawTouched' = IF rawRows' # rawRows THEN [bs \in BucketSizes |-> TRUE]
                     ELSE rawTouched
    /\ UNCHANGED <<retentionHours, savedRows, pendingRows, nextRawID, aggRows,
                   runs, failures, progress, lastRun, maxAggregated, envChanged>>
    /\ UNCHANGED <<now, ticks, alertVars, propVars, queryVars, ingestVars, agentVars, extVars>>

\* MetricRepo.GetCPUMetrics(agentID, start, end, interval): the raw rows of
\* the range, which the read groups by interval
GetCPUMetrics(raw, start, end) ==
    {r \in raw : start <= r.timestamp /\ r.timestamp <= end}

\* MetricRepo.GetCPUMetricsAgg(agentID, start, end, bucketSeconds): the rows
\* of that bucket width with bucketStart in the range
GetCPUMetricsAgg(table, start, end, bucketSeconds) ==
    {a \in BagToSet(table) : /\ a.bucketSeconds = bucketSeconds
                             /\ start <= a.bucketStart
                             /\ a.bucketStart <= end}

\* GetMetrics(ctx, "a1", "cpu", start, now, requested) on the tables of the
\* model; aggOK is the outcome of the aggregate read
GetMetricsRows(start, requested, aggOK) ==
    LET range == normalizeTimeRange(start, now, now, retentionHours)
        interval == DetermineInterval(range[1], range[2], requested, 0)
        bucketSeconds == BucketFor(interval)
        useAgg == bucketSeconds > 0
        metrics == IF useAgg /\ aggOK
                   THEN GetCPUMetricsAgg(aggRows, range[1], range[2], bucketSeconds)
                   ELSE {}
        aggRead == IF useAgg
                   THEN <<ReadOf(bucketSeconds, range[1], range[2], bucketSeconds)>>
                   ELSE <<>>
        result == IF metrics # {} THEN metrics
                  ELSE GetCPUMetrics(rawRows, range[1], range[2])
    IN  /\ qPhase = "idle"
        /\ qInput' = [kind |-> "cpu", span |-> now - start, endAhead |-> 0,
                      requested |-> requested, maxQueryPoints |-> 0,
                      retentionHours |-> retentionHours,
                      aggPopulated |-> metrics # {}, aggFails |-> ~aggOK]
        /\ qPhase' = "served"
        /\ qStart' = range[1]
        /\ qEnd' = range[2]
        /\ qInterval' = interval
        /\ qSource' = IF metrics # {} THEN bucketSeconds ELSE 0
        /\ qRows' = Cardinality(result)
        /\ qReads' = IF metrics # {} THEN aggRead
                     ELSE aggRead \o <<ReadOf(0, range[1], range[2], interval)>>
        /\ qResult' = result
        /\ UNCHANGED <<qAt, qPrev>>
        /\ UNCHANGED <<now, ticks, alertVars, propVars, rollupVars, ingestVars, agentVars, extVars>>

InitRetention ==
    /\ now = RollupBase
    /\ ticks = 0
    /\ AlertTablesInit
    /\ PropertyInit
    /\ retentionHours = RetentionHoursFixed
    /\ rawRows = {}
    /\ savedRows = {}
    /\ pendingRows = {}
    /\ nextRawID = 1
    /\ aggRows = EmptyBag
    /\ runs = 0
    /\ failures = 0
    /\ progress = [bs \in BucketSizes |-> 0]
    /\ lastRun = [bs \in BucketSizes |-> NoRun]
    /\ maxAggregated = [bs \in BucketSizes |-> 0]
    /\ rawTouched = [bs \in BucketSizes |-> FALSE]
    /\ envChanged = [bs \in BucketSizes |-> FALSE]
    /\ QueryIdle
    /\ IngestIdle
    /\ AgentsInit
    /\ ExtInit

\* ingestion, the rollup, the retention loop and the clock run in any order
\* until the query is made; a behaviour is followed up to its query
NextRetention ==
    \/ qPhase = "idle" /\ StampMetric(RetentionSampleValue)
    \/ qPhase = "idle" /\ SaveCPUMetric
    \/ qPhase = "idle" /\ \E bs \in BucketSizes : aggregateMetric(bs, TRUE, TRUE, TRUE)
    \/ qPhase = "idle" /\ cleanupOldMetrics
    \/ qPhase = "idle" /\ AdvanceRollupClock
    \/ \E start \in RetentionQueryStarts, requested \in RetentionQueryRequested,
          aggOK \in BOOLEAN : GetMetricsRows(start, requested, aggOK)

SpecRetention == InitRetention /\ [][NextRetention]_vars

----------------------------------------------------------------------------
(* Claims about retention *)

\* the step is a GetMetrics call on the tables of the model
RetentionQueryStep ==
    \E start \in RetentionQueryStarts, requested \in RetentionQueryRequested,
       aggOK \in BOOLEAN : GetMetricsRows(start, requested, aggOK)

\* the requested range of the call covers the sample
RangeCovers(s) == now - qInput'.span <= s.timestamp /\ s.timestamp <= now

\* the result of the call reflects the sample: its row is among the raw rows
\* returned, or the aggregate row of its bucket is among the aggregate rows
\* returned (the most an aggregate result can reflect of it)
Reflected(s) ==
    IF qSource' = 0 THEN s \in qResult'
    ELSE \E a \in qResult' :
             /\ a.agentID = s.agentID
             /\ a.bucketStart = AlignDown(s.timestamp, qSource' * 1000)

RetentionBoundary == now - RetentionMs(retentionHours)

\* C13 as stated: for a stored sample with timestamp ts and a GetMetrics call
\* at time now whose requested range covers ts, the sample is reflected in
\* the result when ts > now - retention and is never reflected when
\* ts < now - retention, under every interleaving with the retention loop.
C13_RetentionBoundary ==
    [][RetentionQueryStep =>
          \A s \in savedRows :
              RangeCovers(s) =>
                  /\ s.timestamp > RetentionBoundary => Reflected(s)
                  /\ s.timestamp < RetentionBoundary => ~Reflected(s)]_vars

\* C13 amended: the sample is reflected when ts > now - retention and the
\* result is read from the raw table (interval < 60, or the aggregate read
\* returned no rows or failed); it is never reflected when
\* ts < now - retention, whichever table is read.
C13_RetentionBoundaryOnRawRows ==
    [][RetentionQueryStep =>
          \A s \in savedRows :
              RangeCovers(s) =>
                  /\ (s.timestamp > RetentionBoundary /\ qSource' = 0)
                        => Reflected(s)
                  /\ s.timestamp < RetentionBoundary => ~Reflected(s)]_vars

\* a query from the epoch was answered from raw rows while a sample older
\* than its retention boundary was still in the table: the newer sample is
\* in the result and the older one is not
C13_Witness ==
    /\ qPhase = "served"
    /\ qSource = 0
    /\ qInput.span > RetentionMs(retentionHours)
    /\ \E s \in savedRows : s.timestamp > qStart /\ s \in qResult
    /\ \E s \in rawRows : s.timestamp < qStart /\ s \notin qResult

----------------------------------------------------------------------------
(* The planner and the property store: getMetricsConfig reads the metrics *)
(* configuration through PropertyService.Get                              *)

\* the metrics configuration a stored property value stands for: the row of
\* the start-up defaults leaves both fields unset, the other row sets both;
\* no row, or a read that fails, gives the zero value
MetricsConfigOf(v) ==
    IF v = 2 THEN [retentionHours |-> 1, maxQueryPoints |-> 10]
    ELSE [retentionHours |-> 0, maxQueryPoints |-> 0]

\* end - start of the planner calls: 90 seconds and seven days
PlannerSpans == {90000, 7 * 24 * 3600 * 1000}

\* the interval argument of the planner calls
PlannerRequested == {0, 60}

\* the other callers of PropertyService.Get that run alongside the planner
PlannerReaders == {"g1"}

\* PropertyService.Get as one step: the value it returns
GetReturns(cache, row, t) ==
    IF CacheHit(cache, t) THEN cache.value ELSE row

\* a Get that writes the cache entry on every call
CacheAfterGetAlways(cache, row, t) ==
    IF row = 0 THEN cache
    ELSE [present |-> TRUE, value |-> GetReturns(cache, row, t),
          expiresAt |-> t + CacheTTLMs]

\* PropertyService.Get as one step: the cache it leaves; a miss followed by
\* a successful FindById stores the row for an hour
CacheAfterGet(cache, row, t) ==
    IF CacheHit(cache, t) \/ row = 0 THEN cache
    ELSE [present |-> TRUE, value |-> row, expiresAt |-> t + CacheTTLMs]

\* the call that has completed, as a record
CompletedPlan ==
    [at |-> qAt, span |-> qInput.span, requested |-> qInput.requested,
     retentionHours |-> qInput.retentionHours,
     maxQueryPoints |-> qInput.maxQueryPoints, start |-> qStart, end |-> qEnd,
     interval |-> qInterval, bucketSeconds |-> qSource]

\* GetMetrics, first statement: normalizeTimeRange, which reads the metrics
\* configuration and the clock; a behaviour makes two calls, one after the other
PlanNormalize(span, requested) ==
    /\ qPhase \in {"idle", "served"}
    /\ qPrev = NoPlan
    /\ LET cfg == MetricsConfigOf(GetReturns(propCache, propRow, now))
           range == normalizeTimeRange(now - span, now, now, cfg.retentionHours)
       IN  /\ qInput' = [kind |-> "cpu", span |-> span, endAhead |-> 0,
                         requested |-> requested, maxQueryPoints |-> 0,
                         retentionHours |-> cfg.retentionHours,
                         aggPopulated |-> FALSE, aggFails |-> FALSE]
           /\ qStart' = range[1]
           /\ qEnd' = range[2]
    /\ qAt' = now
    /\ qPrev' = IF qPhase = "served" THEN CompletedPlan ELSE qPrev
    /\ qPhase' = "normalized"
    /\ qInterval' = 0
    /\ qSource' = 0
    /\ propCache' = CacheAfterGet(propCache, propRow, now)
    /\ UNCHANGED <<qRows, qReads, qResult>>
    /\ UNCHANGED <<propRow, getPC, getVal, getExpect, setPC, setVal, setCount,
                   lastSetValue>>
    /\ UNCHANGED <<now, ticks, alertVars, rollupVars, ingestVars, agentVars, extVars>>

\* GetMetrics, second statement and the routing: DetermineInterval, which
\* reads the metrics configuration again, and the choice of the bucket
PlanRoute ==
    /\ qPhase = "normalized"
    /\ LET cfg == MetricsConfigOf(GetReturns(propCache, propRow, now))
           interval == DetermineInterval(qStart, qEnd, qInput.requested,
                                         cfg.maxQueryPoints)
       IN  /\ qInput' = [qInput EXCEPT !.maxQueryPoints = cfg.maxQueryPoints]
           /\ qInterval' = interval
           /\ qSource' = BucketFor(interval)
    /\ qPhase' = "served"
    /\ propCache' = CacheAfterGet(propCache, propRow, now)
    /\ UNCHANGED <<qStart, qEnd, qRows, qReads, qResult, qAt, qPrev>>
    /\ UNCHANGED <<propRow, getPC, getVal, getExpect, setPC, setVal, setCount,
                   lastSetValue>>
    /\ UNCHANGED <<now, ticks, alertVars, rollupVars, ingestVars, agentVars, extVars>>

InitPlanner ==
    /\ now = QueryNow
    /\ ticks = 0
    /\ AlertTablesInit
    /\ PropertyInit
    /\ RollupTablesInit
    /\ QueryIdle
    /\ IngestIdle
    /\ AgentsInit
    /\ ExtInit

NextPlanner ==
    \/ \E span \in PlannerSpans, requested \in PlannerRequested :
           PlanNormalize(span, requested)
    \/ PlanRoute
    \/ \E r \in PlannerReaders : GetStart(r)
    \/ \E r \in PlannerReaders : GetFind(r)
    \/ \E r \in PlannerReaders : GetFill(r)
    \/ \E v \in PropValues : SetSave(v)
    \/ SetInvalidate
    \/ AdvancePropClock

SpecPlanner == InitPlanner /\ [][NextPlanner]_vars

----------------------------------------------------------------------------
(* Claims about the planner and the property store *)

\* the step is a statement of a planner call
PlannerStep ==
    \/ \E span \in PlannerSpans, requested \in PlannerRequested :
           PlanNormalize(span, requested)
    \/ PlanRoute

\* the tables of the server
ServerTables == <<propRow, rawRows, aggRows, progress, alertStates, alertRecords>>

\* the completed call had the arguments and the clock of the call before it
SameCallAsBefore ==
    /\ qPhase' = "served"
    /\ qPrev'.at # 0
    /\ qPrev'.at = qAt'
    /\ qPrev'.span = qInput'.span
    /\ qPrev'.requested = qInput'.requested

\* the completed call gave what the call before it gave
SamePlanAsBefore ==
    /\ qPrev'.start = qStart'
    /\ qPrev'.end = qEnd'
    /\ qPrev'.interval = qInterval'
    /\ qPrev'.bucketSeconds = qSource'

\* C16 as stated: the planner writes to no table and changes no server
\* state, and two calls with the same (now, start, end, requested) produce
\* the same normalized range, interval and bucket choice.
C16_PlannerPure ==
    [][PlannerStep =>
          /\ UNCHANGED ServerTables
          /\ UNCHANGED propCache
          /\ SameCallAsBefore => SamePlanAsBefore]_vars

\* C16 amended: the planner writes to no table; the one thing it changes is
\* the cache entry of the metrics configuration, which a read that misses
\* the cache fills with the stored row for an hour; two calls with the same
\* (now, start, end, requested) that read the same retentionHours and
\* maxQueryPoints produce the same normalized range, interval and bucket
\* choice.
C16_PlannerWritesOnlyCache ==
    [][PlannerStep =>
          /\ UNCHANGED ServerTables
          /\ \/ UNCHANGED propCache
             \/ /\ ~CacheHit(propCache, now)
                /\ propRow # 0
                /\ propCache' = [present |-> TRUE, value |-> propRow,
                                 expiresAt |-> now + CacheTTLMs]
          /\ (/\ SameCallAsBefore
              /\ qPrev'.retentionHours = qInput'.retentionHours
              /\ qPrev'.maxQueryPoints = qInput'.maxQueryPoints)
                => SamePlanAsBefore]_vars

\* two completed calls with the same clock and arguments, made under the
\* stored configuration of one hour and ten points: the cache was filled at
\* the time of the calls, both read the same configuration and both planned
\* the same clamped range and interval
C16_Witness ==
    /\ qPhase = "served"
    /\ qPrev.at = qAt
    /\ qPrev.span = qInput.span
    /\ qPrev.requested = qInput.requested
    /\ qInput.retentionHours = 1
    /\ qInput.maxQueryPoints = 10
    /\ CompletedPlan = qPrev
    /\ qStart = qAt - RetentionMs(1)
    /\ propCache = [present |-> TRUE, value |-> 2, expiresAt |-> qAt + CacheTTLMs]

----------------------------------------------------------------------------
(* Metric ingestion: HandleMetricData on the frames of every kind *)

\* the kinds of the frames: one with a single sample, one with an array of
\* samples, and a type string the switch does not know
FrameKinds == {"cpu", "disk", "bogus"}

\* the arrays of a disk frame: n elements, the i-th for the mount point i
ElementLists == {[i \in 1..n |-> i] : n \in 0..MaxElements}

\* the frames: a payload json.Unmarshal rejects (wellFormed = FALSE), or the
\* decoded elements together with the outcome of the save of each
IngestFrames ==
    {[kind |-> k, wellFormed |-> FALSE, elements |-> <<>>, saveOK |-> <<>>] :
        k \in FrameKinds}
    \cup {[kind |-> "bogus", wellFormed |-> TRUE, elements |-> <<>>, saveOK |-> <<>>]}
    \cup {[kind |-> "cpu", wellFormed |-> TRUE, elements |-> <<RetentionSampleValue>>,
           saveOK |-> <<ok>>] : ok \in BOOLEAN}
    \cup UNION {{[kind |-> "disk", wellFormed |-> TRUE, elements |-> e, saveOK |-> ok] :
                    ok \in [DOMAIN e -> BOOLEAN]} : e \in ElementLists}

\* the row HandleMetricData builds for element i of a disk frame
DiskMetricOf(frame, n, i) ==
    [frame |-> n, index |-> i, agentID |-> "a1", mountPoint |-> frame.elements[i],
     timestamp |-> now]

\* the loop over a disk frame that stops at the first save that fails
DiskRowsOfUntilError(frame, n) ==
    {DiskMetricOf(frame, n, i) : i \in {j \in DOMAIN frame.elements :
                                          \A k \in 1..j : frame.saveOK[k]}}

\* the loop over a disk frame: SaveDiskMetric on every element; an error is
\* logged and the loop goes on
DiskRowsOf(frame, n) ==
    {DiskMetricOf(frame, n, i) : i \in {j \in DOMAIN frame.elements : frame.saveOK[j]}}

\* HandleMetricData that saves the sample of a payload it could not decode
DecodedAlways(frame) == frame.kind \in {"cpu", "disk"}

\* the frame reaches the construction of its rows: the kind has a case in
\* the switch and json.Unmarshal returned no error
Decoded(frame) == frame.kind \in {"cpu", "disk"} /\ frame.wellFormed

\* HandleMetricData(ctx, "a1", frame.kind, payload)
HandleMetricData(frame) ==
    LET n == frames + 1
        decoded == Decoded(frame)
        cpuRow == [id |-> nextRawID, agentID |-> "a1", timestamp |-> now,
                   usagePercent |-> IF frame.elements = <<>> THEN 0
                                    ELSE frame.elements[1]]
        cpuSaved == IF frame.kind = "cpu" /\ decoded
                       /\ (frame.saveOK = <<>> \/ frame.saveOK[1])
                    THEN {cpuRow} ELSE {}
        diskSaved == IF frame.kind = "disk" /\ decoded
                     THEN DiskRowsOf(frame, n) ELSE {}
        err == IF frame.kind \notin {"cpu", "disk"} THEN FALSE
               ELSE IF ~decoded THEN TRUE
               ELSE IF frame.kind = "cpu" THEN cpuSaved = {}
               ELSE FALSE
    IN  /\ frames < MaxFrames
        /\ frames' = n
        /\ rawRows' = rawRows \cup cpuSaved
        /\ savedRows' = savedRows \cup cpuSaved
        /\ nextRawID' = IF frame.kind = "cpu" /\ decoded THEN nextRawID + 1
                        ELSE nextRawID
        /\ rawTouched' = IF cpuSaved # {} THEN [bs \in BucketSizes |-> TRUE]
                         ELSE rawTouched
        /\ diskRows' = diskRows \cup diskSaved
        /\ dropped' = IF decoded THEN dropped ELSE dropped + 1
        /\ lastFrame' = [kind |-> frame.kind, wellFormed |-> frame.wellFormed,
                         elements |-> frame.elements, saveOK |-> frame.saveOK,
                         wrote |-> cpuSaved \cup diskSaved, err |-> err]
        /\ UNCHANGED <<retentionHours, pendingRows, aggRows, runs, failures,
                       progress, lastRun, maxAggregated, envChanged>>
        /\ UNCHANGED <<now, ticks, alertVars, propVars, queryVars, agentVars, extVars>>

InitIngest ==
    /\ now = RollupBase
    /\ ticks = 0
    /\ AlertTablesInit
    /\ PropertyInit
    /\ RollupTablesInit
    /\ QueryIdle
    /\ IngestIdle
    /\ AgentsInit
    /\ ExtInit

NextIngest ==
    \/ \E frame \in IngestFrames : HandleMetricData(frame)
    \/ AdvanceRollupClock

SpecIngest == InitIngest /\ [][NextIngest]_vars

----------------------------------------------------------------------------
(* Claims about ingestion *)

\* the step is a call of HandleMetricData
FrameStep == \E frame \in IngestFrames : HandleMetricData(frame)

\* the frame of the step was decoded into its elements
FrameDecoded == lastFrame'.kind \in {"cpu", "disk"} /\ lastFrame'.wellFormed

\* the elements of the frame of the step whose save succeeded
SavedElements == {i \in DOMAIN lastFrame'.elements : lastFrame'.saveOK[i]}

\* C17: for a well-formed frame of an array kind HandleMetricData writes one
\* raw row per element; when saving element i fails, every other element of
\* the frame is still saved and the frame is reported as handled without
\* error.
C17_OneRowPerElement ==
    [][(FrameStep /\ lastFrame'.kind = "disk" /\ lastFrame'.wellFormed) =>
          LET new == diskRows' \ diskRows
          IN  /\ diskRows \subseteq diskRows'
              /\ \A i \in DOMAIN lastFrame'.elements :
                    Cardinality({r \in new : r.index = i}) =
                        (IF lastFrame'.saveOK[i] THEN 1 ELSE 0)
              /\ \A r \in new :
                    /\ r.index \in SavedElements
                    /\ r.mountPoint = lastFrame'.elements[r.index]
                    /\ r.timestamp = now
              /\ Cardinality(new) = Cardinality(SavedElements)
              /\ lastFrame'.err = FALSE
              /\ rawRows' = rawRows]_vars

\* a disk frame of two elements: the save of the first failed, the second
\* was saved and the call returned nil
C17_Witness ==
    /\ lastFrame.kind = "disk"
    /\ lastFrame.wellFormed
    /\ lastFrame.saveOK = <<FALSE, TRUE>>
    /\ {r.index : r \in lastFrame.wrote} = {2}
    /\ lastFrame.wrote \subseteq diskRows
    /\ ~lastFrame.err

\* C18: a metric frame with an unknown kind or a payload that is not valid
\* JSON for its kind is dropped: HandleMetricData writes no raw row and leaves
\* every table unchanged, and later frames are still ingested normally.
C18_BadFrameDropped ==
    [][FrameStep =>
          /\ ~FrameDecoded =>
                /\ lastFrame'.wrote = {}
                /\ UNCHANGED <<rawRows, diskRows, aggRows, progress, propRow,
                               alertStates, alertRecords>>
          /\ (FrameDecoded /\ dropped > 0) =>
                /\ Cardinality(lastFrame'.wrote) = Cardinality(SavedElements)
                /\ lastFrame'.wrote \subseteq (rawRows' \cup diskRows')
                /\ lastFrame'.wrote \cap (rawRows \cup diskRows) = {}]_vars

\* a frame was dropped and the cpu frame after it was saved
C18_Witness ==
    /\ dropped > 0
    /\ lastFrame.kind = "cpu"
    /\ lastFrame.wrote # {}
    /\ lastFrame.wrote \subseteq rawRows
    /\ ~lastFrame.err

----------------------------------------------------------------------------
(* Agent registration: RegisterAgent over the agents table *)

\* the API keys ApiKeyService.ValidateApiKey accepts
ValidKeys == {"k1"}

\* the keys the callers present
RegisterKeys == {"k1", "bad"}

\* the AgentInfo of the calls: one agent under two names and hostnames, and
\* an info without an ID
RegisterInfos ==
    {[id |-> "a1", name |-> "n1", hostname |-> "h1"],
     [id |-> "a1", name |-> "n2", hostname |-> "h2"],
     [id |-> "a2", name |-> "n1", hostname |-> "h1"],
     [id |-> "", name |-> "n1", hostname |-> "h1"]}

\* AgentRepo.FindById: the rows of the table with this ID
AgentsById(table, id) == {a \in table : a.id = id}

\* RegisterAgent that checks the ID and never the key
RegisterCheckNoKey(info, key) ==
    IF info.id = "" THEN "empty" ELSE "ok"

\* RegisterAgent, before the table is read: the key is validated, then the
\* ID must not be empty
RegisterCheck(info, key) ==
    IF key \notin ValidKeys THEN "auth"
    ELSE IF info.id = "" THEN "empty"
    ELSE "ok"

\* the re-registration written as a fresh row: CreatedAt is set as well
UpdatedAgentAsNew(existing, info, t) ==
    [existing EXCEPT !.hostname = info.hostname, !.status = 1,
                     !.lastSeenAt = t, !.createdAt = t, !.updatedAt = t]

\* a re-registration that also takes the name of the frame
UpdatedAgentWithName(existing, info, t) ==
    [existing EXCEPT !.name = info.name, !.hostname = info.hostname, !.status = 1,
                     !.lastSeenAt = t, !.updatedAt = t]

\* RegisterAgent, the agent was found: hostname, address, OS, arch and
\* version (the hostname stands for the five) are taken from the info, the
\* status is online, LastSeenAt and UpdatedAt are the clock
UpdatedAgent(existing, info, t) ==
    [existing EXCEPT !.hostname = info.hostname, !.status = 1,
                     !.lastSeenAt = t, !.updatedAt = t]

\* RegisterAgent, the agent was not found: the row to create
NewAgent(info, t, seq) ==
    [seq |-> seq, id |-> info.id, name |-> info.name, hostname |-> info.hostname,
     status |-> 1, lastSeenAt |-> t, createdAt |-> t, updatedAt |-> t]

\* AgentRepo.UpdateById: the rows with the ID of the agent take its fields
UpdateById(table, agent) ==
    {IF a.id = agent.id THEN [agent EXCEPT !.seq = a.seq] ELSE a : a \in table}

\* AgentRepo.Create: an insert; the primary key rejects an ID already there
Create(table, agent) ==
    IF AgentsById(table, agent.id) # {} THEN table ELSE table \cup {agent}

\* RegisterAgent up to the check of the ID
RegisterValidate(c, info, key) ==
    /\ regCalls[c].pc \in {"idle", "done"}
    /\ regCount < MaxRegs
    /\ regCount' = regCount + 1
    /\ LET check == RegisterCheck(info, key)
       IN  regCalls' = [regCalls EXCEPT ![c] =
               [NoCall EXCEPT !.pc = IF check = "ok" THEN "validated" ELSE "done",
                              !.info = info, !.key = key,
                              !.result = IF check = "ok" THEN "none" ELSE check]]
    /\ UNCHANGED agents
    /\ UNCHANGED <<now, ticks, alertVars, propVars, rollupVars, queryVars,
                   ingestVars, extVars>>

\* s.AgentRepo.FindById(ctx, info.ID), and the clock read that follows it
RegisterFind(c) ==
    /\ regCalls[c].pc = "validated"
    /\ LET found == AgentsById(agents, regCalls[c].info.id)
       IN  regCalls' = [regCalls EXCEPT ![c] =
               [@ EXCEPT !.pc = IF found # {} THEN "found" ELSE "missing",
                         !.existing = IF found # {} THEN CHOOSE a \in found : TRUE
                                      ELSE NoAgent,
                         !.at = now, !.touched = TRUE]]
    /\ UNCHANGED <<agents, regCount>>
    /\ UNCHANGED <<now, ticks, alertVars, propVars, rollupVars, queryVars,
                   ingestVars, extVars>>

\* s.AgentRepo.UpdateById(ctx, &existingAgent) and the return
RegisterUpdate(c) ==
    /\ regCalls[c].pc = "found"
    /\ agents' = UpdateById(agents, UpdatedAgent(regCalls[c].existing,
                                                 regCalls[c].info, regCalls[c].at))
    /\ regCalls' = [regCalls EXCEPT ![c] = [@ EXCEPT !.pc = "done", !.result = "updated"]]
    /\ UNCHANGED regCount
    /\ UNCHANGED <<now, ticks, alertVars, propVars, rollupVars, queryVars,
                   ingestVars, extVars>>

\* s.AgentRepo.Create(ctx, agent) and the return
RegisterCreate(c) ==
    /\ regCalls[c].pc = "missing"
    /\ LET agent == NewAgent(regCalls[c].info, regCalls[c].at, regCount)
       IN  /\ agents' = Create(agents, agent)
           /\ regCalls' = [regCalls EXCEPT ![c] =
                   [@ EXCEPT !.pc = "done",
                             !.result = IF agent \in agents' /\ agent \notin agents
                                        THEN "created" ELSE "duplicate"]]
    /\ UNCHANGED regCount
    /\ UNCHANGED <<now, ticks, alertVars, propVars, rollupVars, queryVars,
                   ingestVars, extVars>>

InitRegister ==
    /\ now = RollupBase
    /\ ticks = 0
    /\ AlertTablesInit
    /\ PropertyInit
    /\ RollupTablesInit
    /\ QueryIdle
    /\ IngestIdle
    /\ AgentsInit
    /\ ExtInit

NextRegister ==
    \/ \E c \in Callers, info \in RegisterInfos, key \in RegisterKeys :
           RegisterValidate(c, info, key)
    \/ \E c \in Callers : RegisterFind(c)
    \/ \E c \in Callers : RegisterUpdate(c)
    \/ \E c \in Callers : RegisterCreate(c)
    \/ AdvanceRollupClock

SpecRegister == InitRegister /\ [][NextRegister]_vars

\* the step is caller c writing the agent it found
ReRegisterStep(c) ==
    /\ regCalls[c].pc = "found"
    /\ regCalls'[c].pc = "done"

\* row b is row a after the re-registration by call r: the same row, its
\* ID, name and createdAt kept, the hostname of the info, online, seen at the
\* clock the call read
ReRegistered(a, b, r) ==
    /\ b.seq = a.seq
    /\ b.id = a.id
    /\ b.name = a.name
    /\ b.createdAt = a.createdAt
    /\ b.hostname = r.info.hostname
    /\ b.status = 1
    /\ b.lastSeenAt = r.at
    /\ b.updatedAt = r.at

\* C19: a registration with a valid key for an agentID that exists updates
\* the row of that agent in place (hostname and the fields set with it,
\* status online, lastSeenAt the clock read by the call), creates no second
\* row for the agentID and leaves createdAt as it was, also when two
\* registrations for the agentID overlap; the rows of other agents stay
C19_ReRegisterInPlace ==
    [][/\ \A c \in Callers : ReRegisterStep(c) =>
            /\ regCalls[c].key \in ValidKeys
            /\ \A a \in AgentsById(agents, regCalls[c].info.id) :
                   \E b \in agents' : ReRegistered(a, b, regCalls[c])
            /\ Cardinality(AgentsById(agents', regCalls[c].info.id)) = 1
            /\ Cardinality(agents') = Cardinality(agents)
            /\ \A a \in agents : a.id # regCalls[c].info.id => a \in agents'
       /\ \A a \in agents : \E b \in agents' :
              b.seq = a.seq /\ b.id = a.id /\ b.createdAt = a.createdAt
       /\ \A a, b \in agents' : a.id = b.id => a = b]_vars

\* c1 has re-registered agent a1 later than its creation while c2, which
\* read the row before that update, is about to write it too; agent a2 is
\* registered as well
C19_Witness ==
    /\ regCalls["c1"].result = "updated"
    /\ regCalls["c1"].info.id = "a1"
    /\ regCalls["c2"].pc = "found"
    /\ regCalls["c2"].info.id = "a1"
    /\ regCalls["c2"].existing \notin agents
    /\ \E a \in agents : a.id = "a1" /\ a.createdAt < a.lastSeenAt
                          /\ a.lastSeenAt = regCalls["c1"].at
    /\ Cardinality(AgentsById(agents, "a1")) = 1

\* the step is caller c entering RegisterAgent with a key that fails
\* validation
BadKeyStep(c) ==
    /\ regCalls'[c] # regCalls[c]
    /\ regCalls[c].pc \in {"idle", "done"}
    /\ regCalls'[c].key \notin ValidKeys

\* C20: a registration whose API key fails validation returns the error,
\* creates no agent row and modifies none, whether the agentID is unknown or
\* registered; the key is checked before the agents table is read or
\* written, so every read and write of the table is by a call with a valid key
C20_BadKeyNoState ==
    [][/\ \A c \in Callers : BadKeyStep(c) =>
            /\ regCalls'[c].result = "auth"
            /\ regCalls'[c].pc = "done"
            /\ ~regCalls'[c].touched
            /\ agents' = agents
       /\ \A c \in Callers : regCalls'[c].touched => regCalls'[c].key \in ValidKeys
       /\ agents' # agents =>
              \E c \in Callers : /\ regCalls[c].key \in ValidKeys
                                 /\ regCalls[c].pc \in {"found", "missing"}
                                 /\ regCalls'[c].pc = "done"]_vars

\* two registrations were refused for their key: one for the registered
\* agent a1, one for the unknown agent a2; the table holds a1 alone
C20_Witness ==
    /\ regCalls["c1"].result = "auth"
    /\ regCalls["c1"].info.id = "a1"
    /\ regCalls["c2"].result = "auth"
    /\ regCalls["c2"].info.id = "a2"
    /\ AgentsById(agents, "a1") # {}
    /\ AgentsById(agents, "a2") = {}

----------------------------------------------------------------------------
(* Agent deletion: DeleteAgent and the rows an agent owns *)

\* the tables DeleteAgent deletes from: every metric table, raw and
\* aggregate (DeleteAgentMetrics), the monitor statistics (DeleteByAgentId),
\* the audit results (DeleteAuditResults) and the agent itself (DeleteById)
CascadeTables ==
    {"metrics", "metrics_agg", "monitor_stats", "audit_results", "agents"}

\* the tables a handler of a registered agent writes a row to
WrittenTables == OwnedTables \ {"agents", "metrics"}

\* the rows left by the deletes of DeleteAgent
DeleteOwned(tables, agentID) ==
    [t \in OwnedTables |->
        IF t \in CascadeTables THEN tables[t] \ {agentID} ELSE tables[t]]

\* the agent registers: its row is in the agents table
RegisterOwned(a) ==
    /\ a \notin owned["agents"]
    /\ stores < MaxStores
    /\ owned' = [owned EXCEPT !["agents"] = @ \cup {a}]
    /\ deletedOK' = deletedOK \ {a}
    /\ stores' = stores + 1
    /\ UNCHANGED inFlight
    /\ UNCHANGED <<coreVars, extButCascade>>

\* a row of a registered agent is written to one of its tables: a rollup, a
\* monitor statistic, an audit result, an alert state or record, a login event
StoreOwned(a, t) ==
    /\ a \in owned["agents"]
    /\ a \notin owned[t]
    /\ stores < MaxStores
    /\ owned' = [owned EXCEPT ![t] = @ \cup {a}]
    /\ stores' = stores + 1
    /\ UNCHANGED <<inFlight, deletedOK>>
    /\ UNCHANGED <<coreVars, extButCascade>>

\* HandleMetricData up to the save: the frame of a connected agent is parsed
ParseMetricFrame(a) ==
    /\ a \in owned["agents"]
    /\ a \notin inFlight
    /\ stores < MaxStores
    /\ inFlight' = inFlight \cup {a}
    /\ stores' = stores + 1
    /\ UNCHANGED <<owned, deletedOK>>
    /\ UNCHANGED <<coreVars, extButCascade>>

\* HandleMetricData, s.metricRepo.SaveCPUMetric: the row is inserted
SaveMetricFrame(a) ==
    /\ a \in inFlight
    /\ inFlight' = inFlight \ {a}
    /\ owned' = [owned EXCEPT !["metrics"] = @ \cup {a}]
    /\ UNCHANGED <<deletedOK, stores>>
    /\ UNCHANGED <<coreVars, extButCascade>>

\* DeleteAgent: the four deletes in one transaction; when one of them fails
\* the transaction rolls back and the error is returned
DeleteAgent(agentID, ok) ==
    /\ agentID \in owned["agents"]
    /\ owned' = IF ok THEN DeleteOwned(owned, agentID) ELSE owned
    /\ deletedOK' = IF ok THEN deletedOK \cup {agentID} ELSE deletedOK
    /\ UNCHANGED <<inFlight, stores>>
    /\ UNCHANGED <<coreVars, extButCascade>>

InitDelete ==
    /\ now = 1000
    /\ ticks = 0
    /\ AlertTablesInit
    /\ PropertyInit
    /\ RollupTablesInit
    /\ QueryIdle
    /\ IngestIdle
    /\ AgentsInit
    /\ ExtInit

NextDelete ==
    \/ \E a \in Agents : RegisterOwned(a)
    \/ \E a \in Agents, t \in WrittenTables : StoreOwned(a, t)
    \/ \E a \in Agents : ParseMetricFrame(a)
    \/ \E a \in Agents : SaveMetricFrame(a)
    \/ \E a \in Agents, ok \in BOOLEAN : DeleteAgent(a, ok)

SpecDelete == InitDelete /\ [][NextDelete]_vars

\* C21: after DeleteAgent(a) has succeeded no table holds a row owned by a:
\* not the agents table, a metric table, raw or aggregate, the monitor
\* statistics, audit_results, alert_states, alert_records or
\* ssh_login_events; also when a metric frame of a was being ingested
C21_NoOwnedRowAfterDelete ==
    \A a \in deletedOK : \A t \in OwnedTables : a \notin owned[t]

\* the part of C21 on the tables DeleteAgent does delete from, frames in
\* flight apart
C21_CascadeTablesEmptied ==
    [][\A a \in Agents :
          (a \in deletedOK' /\ a \notin deletedOK) =>
              \A t \in CascadeTables : a \notin owned'[t]]_vars

----------------------------------------------------------------------------
(* Startup: InitStatus marks the agents offline *)

\* the agents tables the server can start with: each of a1 and a2 absent,
\* offline or online, as the last run left it
StoredAgent(id, seq, status) ==
    [seq |-> seq, id |-> id, name |-> "n1", hostname |-> "h1", status |-> status,
     lastSeenAt |-> 500, createdAt |-> 100, updatedAt |-> 500]

StartupTables ==
    {t1 \cup t2 :
        t1 \in {{}} \cup {{StoredAgent("a1", 101, st)} : st \in {0, 1}},
        t2 \in {{}} \cup {{StoredAgent("a2", 102, st)} : st \in {0, 1}}}

\* AgentRepo.UpdateStatus: the status and last-seen time of the row with the ID
UpdateStatus(table, id, status, lastSeenAt) ==
    {IF a.id = id THEN [a EXCEPT !.status = status, !.lastSeenAt = lastSeenAt]
     ELSE a : a \in table}

\* InitStatus that only resets the last-seen time
MarkOfflineKeepsStatus(table, id) ==
    {IF a.id = id THEN [a EXCEPT !.lastSeenAt = 0] ELSE a : a \in table}

\* InitStatus, the body of the loop: s.AgentRepo.UpdateStatus(ctx, agent.ID, 0, 0)
MarkOffline(table, id) ==
    UpdateStatus(table, id, 0, 0)

\* InitStatus: s.AgentRepo.FindAll; an error is returned to the caller
InitStatusFindAll(ok) ==
    /\ initPC = "idle"
    /\ initPC' = IF ok THEN "loop" ELSE "failed"
    /\ initList' = IF ok THEN {a.id : a \in agents} ELSE {}
    /\ UNCHANGED <<statusCall, statusCount>>
    /\ UNCHANGED <<coreVars, extButStartup>>

\* InitStatus: one turn of the loop; an error of UpdateStatus is returned
InitStatusUpdate(id, ok) ==
    /\ initPC = "loop"
    /\ id \in initList
    /\ agents' = IF ok THEN MarkOffline(agents, id) ELSE agents
    /\ initPC' = IF ok THEN "loop" ELSE "failed"
    /\ initList' = initList \ {id}
    /\ UNCHANGED <<statusCall, statusCount>>
    /\ UNCHANGED <<regCalls, regCount>>
    /\ UNCHANGED <<now, ticks, alertVars, propVars, rollupVars, queryVars,
                   ingestVars, extButStartup>>

\* InitStatus: the loop is over, nil is returned
InitStatusReturn ==
    /\ initPC = "loop"
    /\ initList = {}
    /\ initPC' = "done"
    /\ UNCHANGED <<initList, statusCall, statusCount>>
    /\ UNCHANGED <<coreVars, extButStartup>>

\* the server serves once the startup step is over
Serving == initPC \in {"done", "failed"}

\* UpdateAgentStatus(ctx, agentID, status), called by the session layer
UpdateAgentStatus(agentID, status) ==
    /\ Serving
    /\ statusCount < MaxStatusCalls
    /\ agents' = UpdateStatus(agents, agentID, status, now)
    /\ statusCall' = [id |-> agentID, status |-> status]
    /\ statusCount' = statusCount + 1
    /\ UNCHANGED <<initPC, initList>>
    /\ UNCHANGED <<regCalls, regCount>>
    /\ UNCHANGED <<now, ticks, alertVars, propVars, rollupVars, queryVars,
                   ingestVars, extButStartup>>

InitStartup ==
    /\ now = 1000
    /\ ticks = 0
    /\ AlertTablesInit
    /\ PropertyInit
    /\ RollupTablesInit
    /\ QueryIdle
    /\ IngestIdle
    /\ agents \in StartupTables
    /\ regCalls = [c \in Callers |-> NoCall]
    /\ regCount = 0
    /\ ExtInit

NextStartup ==
    \/ \E ok \in BOOLEAN : InitStatusFindAll(ok)
    \/ \E id \in Agents, ok \in BOOLEAN : InitStatusUpdate(id, ok)
    \/ InitStatusReturn
    \/ \E id \in Agents, status \in {0, 1} : UpdateAgentStatus(id, status)
    \/ \E info \in RegisterInfos, key \in RegisterKeys :
           Serving /\ regCount < MaxStartupRegs /\ RegisterValidate("c1", info, key)
    \/ Serving /\ RegisterFind("c1")
    \/ Serving /\ RegisterUpdate("c1")
    \/ Serving /\ RegisterCreate("c1")

SpecStartup == InitStartup /\ [][NextStartup]_vars

\* the table holds the agent with status online
Online(table, id) == \E a \in table : a.id = id /\ a.status = 1

\* the step is a RegisterAgent call for the agent writing its row
RegistrationOf(id) ==
    \E c \in Callers :
        /\ regCalls[c].pc \in {"found", "missing"}
        /\ regCalls'[c].pc = "done"
        /\ regCalls[c].info.id = id

\* the step is UpdateAgentStatus(id, online)
StatusSetOnline(id) ==
    /\ statusCount' = statusCount + 1
    /\ statusCall' = [id |-> id, status |-> 1]

\* the step is the successful return of InitStatus
InitStatusCompletes ==
    /\ initPC = "loop"
    /\ initPC' = "done"

\* C22: when InitStatus completes successfully every agent row has status
\* offline, and afterwards the status of an agent becomes online only by a
\* registration of that agent
C22_OfflineUntilRegistration ==
    [][/\ InitStatusCompletes => \A a \in agents' : a.status = 0
       /\ initPC = "done" =>
              \A id \in Agents :
                  (~Online(agents, id) /\ Online(agents', id)) => RegistrationOf(id)]_vars

\* C22, amended: when InitStatus completes successfully every agent row has
\* status offline, and afterwards the status of an agent becomes online only
\* by a registration of that agent or by UpdateAgentStatus called for that
\* agent with status online
C22_OfflineUntilRegistrationOrStatusCall ==
    [][/\ InitStatusCompletes => \A a \in agents' : a.status = 0
       /\ initPC = "done" =>
              \A id \in Agents :
                  (~Online(agents, id) /\ Online(agents', id)) =>
                      RegistrationOf(id) \/ StatusSetOnline(id)]_vars

\* InitStatus has returned nil; a1, which it marked offline, is still
\* offline, and a2 is online again after its registration
C22_Witness ==
    /\ initPC = "done"
    /\ \E a \in agents : a.id = "a1" /\ a.status = 0 /\ a.lastSeenAt = 0
    /\ Online(agents, "a2")
    /\ regCalls["c1"].result = "updated"
    /\ regCalls["c1"].info.id = "a2"

----------------------------------------------------------------------------
(* Property defaults: InitializeDefaultConfigs *)

PropertyIDSystemVersion == "version"
PropertyIDNotificationChannels == "notification_channels"
PropertyIDSystemConfig == "system_config"
PropertyIDPublicIPConfig == "public_ip_config"
PropertyIDAlertConfig == "alert_config"
PropertyIDDNSProviders == "dns_providers"
PropertyIDAgentInstallConfig == "agent_install_config"

\* the property ids of the service
PropertyIDs ==
    {PropertyIDSystemVersion, PropertyIDNotificationChannels, PropertyIDSystemConfig,
     PropertyIDPublicIPConfig, PropertyIDAlertConfig, PropertyIDDNSProviders,
     PropertyIDAgentInstallConfig}

\* the default alert rules
DefaultAlertRules ==
    [cpuEnabled |-> TRUE, cpuThreshold |-> 80, cpuDuration |-> 300,
     memoryEnabled |-> TRUE, memoryThreshold |-> 80, memoryDuration |-> 300,
     diskEnabled |-> TRUE, diskThreshold |-> 85, diskDuration |-> 300,
     networkEnabled |-> FALSE, networkThreshold |-> 100, networkDuration |-> 300,
     certEnabled |-> TRUE, certThreshold |-> 30,
     serviceEnabled |-> TRUE, serviceDuration |-> 300,
     agentOfflineEnabled |-> TRUE, agentOfflineDuration |-> 300]

\* defaultConfigs of InitializeDefaultConfigs, in its order; a value is the
\* JSON object json.Marshal writes, a record by the json names of the fields
defaultConfigs ==
    <<[id |-> PropertyIDSystemConfig,
       value |-> [systemNameZh |-> "zh", systemNameEn |-> "Pika Monitor",
                  logoBase64 |-> "logo", icpCode |-> "", defaultView |-> "grid",
                  customCSS |-> "", customJS |-> ""]],
      [id |-> PropertyIDPublicIPConfig,
       value |-> [enabled |-> FALSE, intervalSeconds |-> 300,
                  ipv4Scope |-> "all", ipv4AgentIds |-> <<>>,
                  ipv6Scope |-> "all", ipv6AgentIds |-> <<>>,
                  ipv4Enabled |-> TRUE, ipv6Enabled |-> TRUE,
                  ipv4Apis |-> "defaultPublicIPv4APIs",
                  ipv6Apis |-> "defaultPublicIPv6APIs"]],
      [id |-> PropertyIDNotificationChannels, value |-> <<>>],
      [id |-> PropertyIDAlertConfig,
       value |-> [enabled |-> TRUE, maskIP |-> FALSE,
                  rules |-> DefaultAlertRules,
                  notifications |-> [trafficEnabled |-> TRUE,
                                     sshLoginSuccessEnabled |-> TRUE,
                                     tamperEventEnabled |-> TRUE]]],
      [id |-> PropertyIDDNSProviders, value |-> <<>>],
      [id |-> PropertyIDAgentInstallConfig, value |-> [serverUrl |-> ""]]>>

\* the ids InitializeDefaultConfigs knows a default for
DefaultIDs == {defaultConfigs[i].id : i \in DOMAIN defaultConfigs}

DefaultValueOf(id) ==
    defaultConfigs[CHOOSE i \in DOMAIN defaultConfigs : defaultConfigs[i].id = id].value

\* a value an administrator stored under the id in an earlier run of the
\* server, different from the default
StoredValueOf(id) ==
    CASE id = PropertyIDSystemVersion -> "v1"
      [] id = PropertyIDSystemConfig ->
            [DefaultValueOf(id) EXCEPT !.defaultView = "list"]
      [] id = PropertyIDPublicIPConfig ->
            [DefaultValueOf(id) EXCEPT !.intervalSeconds = 600, !.ipv6Enabled = FALSE]
      [] id = PropertyIDAlertConfig ->
            [DefaultValueOf(id) EXCEPT !.rules.cpuEnabled = FALSE]
      [] id = PropertyIDAgentInstallConfig -> [serverUrl |-> "https://pika"]
      [] OTHER -> <<"stored">>

StoredProperty(id) ==
    [id |-> id, value |-> StoredValueOf(id), createdAt |-> 500, updatedAt |-> 500]

\* the property tables the server can start with: any of the ids stored
DefaultsTables ==
    {[id \in ids |-> StoredProperty(id)] : ids \in SUBSET PropertyIDs}

\* PropertyRepo.ExistsById
ExistsById(table, id) == id \in DOMAIN table

\* PropertyService.Set: the value is marshalled and the row saved (an upsert
\* by id) with the clock as CreatedAt and UpdatedAt
SetProperty(table, id, value, t) ==
    [k \in (DOMAIN table) \cup {id} |->
        IF k = id THEN [id |-> id, value |-> value, createdAt |-> t, updatedAt |-> t]
        ELSE table[k]]

\* initializeProperty that saves the default without looking for the row
initializePropertyAlways(table, config, t) ==
    SetProperty(table, config.id, config.value, t)

\* initializeProperty: a row that exists is skipped, else the default is set
initializeProperty(table, config, t) ==
    IF ExistsById(table, config.id) THEN table
    ELSE SetProperty(table, config.id, config.value, t)

\* InitializeDefaultConfigs is called
DefaultsStart ==
    /\ dcPC \in {"idle", "done", "failed"}
    /\ dcRuns < MaxInitRuns
    /\ dcRuns' = dcRuns + 1
    /\ dcPrevOK' = (dcPC = "done")
    /\ dcPC' = "loop"
    /\ dcIndex' = 1
    /\ dcBefore' = properties
    /\ UNCHANGED properties
    /\ UNCHANGED <<coreVars, extButDefaults>>

\* one turn of the loop: initializeProperty on the next default; an error of
\* ExistsById or of Set ends the call with that error
DefaultsStep(existsOK, setOK) ==
    /\ dcPC = "loop"
    /\ dcIndex <= Len(defaultConfigs)
    /\ LET config == defaultConfigs[dcIndex]
           failed == \/ ~existsOK
                     \/ ~ExistsById(properties, config.id) /\ ~setOK
       IN  /\ properties' = IF failed THEN properties
                            ELSE initializeProperty(properties, config, now)
           /\ dcPC' = IF failed THEN "failed" ELSE "loop"
    /\ dcIndex' = dcIndex + 1
    /\ UNCHANGED <<dcRuns, dcBefore, dcPrevOK>>
    /\ UNCHANGED <<coreVars, extButDefaults>>

\* the loop is over: nil is returned
DefaultsReturn ==
    /\ dcPC = "loop"
    /\ dcIndex > Len(defaultConfigs)
    /\ dcPC' = "done"
    /\ UNCHANGED <<properties, dcIndex, dcRuns, dcBefore, dcPrevOK>>
    /\ UNCHANGED <<coreVars, extButDefaults>>

\* the clock moves on between the calls
DefaultsClock ==
    /\ dcPC \in {"done", "failed"}
    /\ ticks < 1
    /\ now' = now + 1000
    /\ ticks' = ticks + 1
    /\ UNCHANGED <<alertVars, propVars, rollupVars, queryVars, ingestVars,
                   agentVars, extVars>>

InitDefaults ==
    /\ now = 1000
    /\ ticks = 0
    /\ AlertTablesInit
    /\ PropertyInit
    /\ RollupTablesInit
    /\ QueryIdle
    /\ IngestIdle
    /\ AgentsInit
    /\ CascadeInit
    /\ StartupIdle
    /\ NotifyIdle
    /\ PushIdle
    /\ LoopsIdle
    /\ ClearIdle
    /\ OfflineIdle
    /\ SamplingIdle
    /\ StopIdle
    /\ AtomicIdle
    /\ TickIdle
    /\ OAuthIdle
    /\ properties \in DefaultsTables
    /\ dcPC = "idle"
    /\ dcIndex = 0
    /\ dcRuns = 0
    /\ dcBefore = <<>>
    /\ dcPrevOK = FALSE

NextDefaults ==
    \/ DefaultsStart
    \/ \E existsOK, setOK \in BOOLEAN : DefaultsStep(existsOK, setOK)
    \/ DefaultsReturn
    \/ DefaultsClock

SpecDefaults == InitDefaults /\ [][NextDefaults]_vars

\* the step is a turn of the loop of InitializeDefaultConfigs
DefaultsLoopStep == dcPC = "loop" /\ dcIndex' = dcIndex + 1

\* the step is the return of nil by InitializeDefaultConfigs
DefaultsCompletes == dcPC = "loop" /\ dcPC' = "done"

\* C23: InitializeDefaultConfigs inserts the default of a known id only when
\* the id has no row, never changes the row of an id that has one, and a
\* second call after a call that returned nil changes no property
C23_DefaultsOnlyWhenAbsent ==
    [][/\ DefaultsLoopStep =>
            \A id \in PropertyIDs :
                /\ id \in DOMAIN properties =>
                       id \in DOMAIN properties' /\ properties'[id] = properties[id]
                /\ (id \notin DOMAIN properties /\ id \in DOMAIN properties') =>
                       /\ id = defaultConfigs[dcIndex].id
                       /\ properties'[id].value = DefaultValueOf(id)
       /\ DefaultsCompletes =>
            /\ \A id \in DefaultIDs :
                   /\ id \in DOMAIN properties
                   /\ properties[id] = IF id \in DOMAIN dcBefore THEN dcBefore[id]
                                       ELSE [id |-> id, value |-> DefaultValueOf(id),
                                             createdAt |-> properties[id].createdAt,
                                             updatedAt |-> properties[id].updatedAt]
            /\ DOMAIN properties = DOMAIN dcBefore \cup DefaultIDs
            /\ dcPrevOK => properties = dcBefore]_vars

\* the second call has returned nil after the first did: the stored alert
\* config is the administrator's, the public-IP config is the default the
\* first call inserted, at the time of the first call
C23_Witness ==
    /\ dcPC = "done"
    /\ dcRuns = 2
    /\ dcPrevOK
    /\ properties = dcBefore
    /\ PropertyIDAlertConfig \in DOMAIN properties
    /\ properties[PropertyIDAlertConfig] = StoredProperty(PropertyIDAlertConfig)
    /\ PropertyIDPublicIPConfig \in DOMAIN properties
    /\ properties[PropertyIDPublicIPConfig].value = DefaultValueOf(PropertyIDPublicIPConfig)
    /\ properties[PropertyIDPublicIPConfig].createdAt < now

\* InitializeDefaultConfigs has returned nil on a table that was empty
DefaultsOnEmptyTable ==
    /\ dcPC = "done"
    /\ dcBefore = <<>>

\* every rule kind of the alert rules is enabled
AllRuleKindsEnabled(rules) ==
    /\ rules.cpuEnabled
    /\ rules.memoryEnabled
    /\ rules.diskEnabled
    /\ rules.networkEnabled
    /\ rules.certEnabled
    /\ rules.serviceEnabled
    /\ rules.agentOfflineEnabled

\* C24: after InitializeDefaultConfigs has run on an empty property table
\* the stored alert config has every rule kind enabled (CPU, memory, disk,
\* network, certificate, service-down, agent-offline) and the stored
\* public-IP config has an interval of 300 seconds with IPv4 and IPv6 enabled
C24_DefaultsAllRulesEnabled ==
    DefaultsOnEmptyTable =>
        /\ AllRuleKindsEnabled(properties[PropertyIDAlertConfig].value.rules)
        /\ properties[PropertyIDPublicIPConfig].value.intervalSeconds = 300
        /\ properties[PropertyIDPublicIPConfig].value.ipv4Enabled
        /\ properties[PropertyIDPublicIPConfig].value.ipv6Enabled

\* the part of C24 on the public-IP config, and the rule kinds other than network
C24_DefaultsButNetwork ==
    DefaultsOnEmptyTable =>
        /\ AllRuleKindsEnabled([properties[PropertyIDAlertConfig].value.rules
                                   EXCEPT !.networkEnabled = TRUE])
        /\ ~properties[PropertyIDAlertConfig].value.rules.networkEnabled
        /\ properties[PropertyIDPublicIPConfig].value.intervalSeconds = 300
        /\ properties[PropertyIDPublicIPConfig].value.ipv4Enabled
        /\ properties[PropertyIDPublicIPConfig].value.ipv6Enabled

----------------------------------------------------------------------------
(* Notifications: SendAlertNotification *)

NotificationTypeTraffic == "traffic"
NotificationTypeSSHLogin == "ssh_login"
NotificationTypeTamperEvt == "tamper"

\* the notification types of the callers: the three with a toggle, and the
\* type of a metric alert, which has none
NotificationTypes ==
    {NotificationTypeTraffic, NotificationTypeSSHLogin, NotificationTypeTamperEvt,
     "cpu"}

ChannelTypes == {"dingtalk", "webhook", "feishu"}

\* a channel list: up to three channels of different types, each enabled or not
ChannelConfigs ==
    UNION {{ch \in [1..n -> [type : ChannelTypes, enabled : BOOLEAN]] :
               \A i, j \in 1..n : ch[i].type = ch[j].type => i = j} : n \in 0..3}

\* the calls: a type, the stored alert config, the stored channels, and
\* whether the two reads and the notifier succeed
Notifications ==
    [type : NotificationTypes, enabled : BOOLEAN, traffic : BOOLEAN,
     sshLogin : BOOLEAN, tamper : BOOLEAN, channels : ChannelConfigs,
     configOK : BOOLEAN, channelsOK : BOOLEAN, notifierOK : BOOLEAN]

isNotificationEnabled(config, notificationType) ==
    CASE notificationType = NotificationTypeTraffic -> config.traffic
      [] notificationType = NotificationTypeSSHLogin -> config.sshLogin
      [] notificationType = NotificationTypeTamperEvt -> config.tamper
      [] OTHER -> TRUE

\* the loop of SendAlertNotification without its test
enabledChannelsAll(channelConfigs) == channelConfigs

\* the loop of SendAlertNotification: the channels with Enabled, appended in order
enabledChannels(channelConfigs) ==
    SelectSeq(channelConfigs, LAMBDA channel : channel.enabled)

\* SendAlertNotification(ctx, notificationType, record, agent)
SendAlertNotification ==
    /\ nPhase = "new"
    /\ nPhase' = "done"
    /\ LET send == /\ nInput.configOK
                   /\ nInput.enabled
                   /\ isNotificationEnabled(nInput, nInput.type)
                   /\ nInput.channelsOK
                   /\ Len(enabledChannels(nInput.channels)) # 0
       IN  /\ handed' = IF send THEN enabledChannels(nInput.channels) ELSE <<>>
           /\ notifierCalls' = IF send THEN notifierCalls + 1 ELSE notifierCalls
           /\ nResult' =
                 IF ~nInput.configOK THEN "error"
                 ELSE IF ~nInput.enabled \/ ~isNotificationEnabled(nInput, nInput.type)
                      THEN "nil"
                 ELSE IF ~nInput.channelsOK THEN "error"
                 ELSE IF ~send THEN "nil"
                 ELSE IF nInput.notifierOK THEN "nil" ELSE "error"
    /\ UNCHANGED nInput
    /\ UNCHANGED <<coreVars, extButNotify>>

InitNotify ==
    /\ now = 1000
    /\ ticks = 0
    /\ AlertTablesInit
    /\ PropertyInit
    /\ RollupTablesInit
    /\ QueryIdle
    /\ IngestIdle
    /\ AgentsInit
    /\ CascadeInit
    /\ StartupIdle
    /\ DefaultsIdle
    /\ PushIdle
    /\ LoopsIdle
    /\ ClearIdle
    /\ OfflineIdle
    /\ SamplingIdle
    /\ StopIdle
    /\ AtomicIdle
    /\ TickIdle
    /\ OAuthIdle
    /\ nInput \in Notifications
    /\ nPhase = "new"
    /\ handed = <<>>
    /\ notifierCalls = 0
    /\ nResult = "nil"

NextNotify == SendAlertNotification

SpecNotify == InitNotify /\ [][NextNotify]_vars

\* the position of the channel of a type in a list of channels of different types
PositionOf(channels, type) ==
    CHOOSE i \in 1..Len(channels) : channels[i].type = type

\* the notifier is to be called: the reads succeed, the global switch is on,
\* the toggle of the type, if it is one of the three with a toggle, is on,
\* and a channel is enabled
MustDeliver ==
    /\ nInput.configOK
    /\ nInput.channelsOK
    /\ nInput.enabled
    /\ nInput.type = NotificationTypeTraffic => nInput.traffic
    /\ nInput.type = NotificationTypeSSHLogin => nInput.sshLogin
    /\ nInput.type = NotificationTypeTamperEvt => nInput.tamper
    /\ \E i \in 1..Len(nInput.channels) : nInput.channels[i].enabled

\* C25: SendAlertNotification hands the notifier exactly the configured
\* channels whose enabled flag is true, in the order of the configuration,
\* never a disabled one; it hands over nothing when the global switch is off,
\* the toggle of the event type is off, or no channel is enabled
C25_EnabledChannelsOnly ==
    nPhase = "done" =>
        /\ \A i \in 1..Len(handed) : handed[i].enabled
        /\ MustDeliver =>
              /\ notifierCalls = 1
              /\ \A i \in 1..Len(nInput.channels) :
                     nInput.channels[i].enabled <=>
                         \E j \in 1..Len(handed) : handed[j] = nInput.channels[i]
              /\ \A i, j \in 1..Len(handed) :
                     i < j => PositionOf(nInput.channels, handed[i].type)
                                < PositionOf(nInput.channels, handed[j].type)
        /\ ~MustDeliver => notifierCalls = 0 /\ handed = <<>>

\* the channels are dingtalk (enabled), webhook (enabled), feishu (disabled);
\* the notifier was handed two channels
C25_Witness ==
    /\ nPhase = "done"
    /\ nInput.channels = <<[type |-> "dingtalk", enabled |-> TRUE],
                            [type |-> "webhook", enabled |-> TRUE],
                            [type |-> "feishu", enabled |-> FALSE]>>
    /\ nInput.type = NotificationTypeSSHLogin
    /\ notifierCalls = 1
    /\ handed = <<[type |-> "dingtalk", enabled |-> TRUE],
                   [type |-> "webhook", enabled |-> TRUE]>>

----------------------------------------------------------------------------
(* Public-IP push: PublicIPService.Run and sendConfigToOnlineAgents *)

\* the stored configs: collection and each family on or off, each scope all
\* or custom, a custom list per family, an interval unset or 300 seconds
PublicIPConfigs ==
    [enabled : BOOLEAN, intervalSeconds : {0, 300},
     ipv4Enabled : BOOLEAN, ipv6Enabled : BOOLEAN,
     ipv4Scope : {"all", "custom"}, ipv6Scope : {"all", "custom"},
     ipv4AgentIds : {{}, {"a1"}}, ipv6AgentIds : {{}, {"a2"}}]

\* IsIPv4Target without the scope
IsIPv4TargetAnyScope(c, agentID) ==
    c.ipv4Enabled

\* PublicIPConfig.IsIPv4Target
IsIPv4Target(c, agentID) ==
    IF ~c.ipv4Enabled THEN FALSE
    ELSE IF c.ipv4Scope # "custom" THEN TRUE
    ELSE agentID \in c.ipv4AgentIds

\* PublicIPConfig.IsIPv6Target
IsIPv6Target(c, agentID) ==
    IF ~c.ipv6Enabled THEN FALSE
    ELSE IF c.ipv6Scope # "custom" THEN TRUE
    ELSE agentID \in c.ipv6AgentIds

\* a Run that pushes whatever the config says
PushEnabledAlways(c) == TRUE

\* Run: the config says to push in this turn of the loop
PushEnabled(c) == c.enabled /\ (c.ipv4Enabled \/ c.ipv6Enabled)

\* the agents of the tick still to visit when a failed send is tried again
RemainingAfterSendRetry(list, agentID, ok) ==
    IF ok THEN list \ {agentID} ELSE list

\* sendConfigToOnlineAgents: the loop moves on to the next agent whatever
\* SendToClient returned
RemainingAfterSend(list, agentID, ok) ==
    list \ {agentID}

\* the root context is cancelled
Cancel ==
    /\ ~cancelled
    /\ cancelled' = TRUE
    /\ pcAtCancel' = <<cleanupPC, aggPC, pushPC>>
    /\ UNCHANGED <<cleanupPC, aggPC, aggLeft>>
    /\ UNCHANGED <<coreVars, extButLoops>>

\* Run, the top of the loop with ctx.Done() closed: return
PushReturnAtTop ==
    /\ pushPC = "top"
    /\ cancelled
    /\ pushPC' = "returned"
    /\ UNCHANGED <<pConfig, clients, pushConfigOK, pushList, pushClients, pushFrames,
                   attempts, failedPrev, pushTick>>
    /\ UNCHANGED cancelled
    /\ UNCHANGED <<coreVars, extButPush>>

\* Run, the top of the loop: the config is read; on an error, or with the
\* collection or both families off, the loop sleeps; else
\* sendConfigToOnlineAgents starts with the agents of GetAllClients
PushTop(configOK) ==
    /\ pushPC = "top"
    /\ ~cancelled
    /\ pushConfigOK' = configOK
    /\ IF configOK /\ PushEnabled(pConfig)
       THEN /\ pushTick < MaxPushTicks
            /\ pushTick' = pushTick + 1
            /\ pushPC' = "sending"
            /\ pushList' = clients
            /\ pushClients' = clients
            /\ pushFrames' = {}
            /\ attempts' = [a \in Agents |-> 0]
            /\ failedPrev' = {f.agentID : f \in {g \in pushFrames : ~g.ok}}
       ELSE /\ pushPC' = "sleeping"
            /\ UNCHANGED <<pushList, pushClients, pushFrames, attempts, failedPrev,
                           pushTick>>
    /\ UNCHANGED <<pConfig, clients>>
    /\ UNCHANGED cancelled
    /\ UNCHANGED <<coreVars, extButPush>>

\* sendConfigToOnlineAgents, one turn of the loop: an agent that is a target
\* of neither family is skipped, else its frame goes to SendToClient, whose
\* error is logged
PushSend(agentID, ok) ==
    /\ pushPC = "sending"
    /\ agentID \in pushList
    /\ LET ipv4Enabled == IsIPv4Target(pConfig, agentID)
           ipv6Enabled == IsIPv6Target(pConfig, agentID)
       IN  IF ~ipv4Enabled /\ ~ipv6Enabled
           THEN /\ pushList' = pushList \ {agentID}
                /\ UNCHANGED <<pushFrames, attempts>>
           ELSE /\ pushFrames' = pushFrames \cup
                      {[agentID |-> agentID, enabled |-> pConfig.enabled,
                        intervalSeconds |-> pConfig.intervalSeconds,
                        ipv4Enabled |-> ipv4Enabled, ipv6Enabled |-> ipv6Enabled,
                        ok |-> ok]}
                /\ attempts' = [attempts EXCEPT ![agentID] = @ + 1]
                /\ pushList' = RemainingAfterSend(pushList, agentID, ok)
    /\ UNCHANGED <<pConfig, clients, pushPC, pushConfigOK, pushClients, failedPrev,
                   pushTick>>
    /\ UNCHANGED cancelled
    /\ UNCHANGED <<coreVars, extButPush>>

\* sendConfigToOnlineAgents returns and Run enters sleepWithCancel
PushSleep ==
    /\ pushPC = "sending"
    /\ pushList = {}
    /\ pushPC' = "sleeping"
    /\ UNCHANGED <<pConfig, clients, pushConfigOK, pushList, pushClients, pushFrames,
                   attempts, failedPrev, pushTick>>
    /\ UNCHANGED cancelled
    /\ UNCHANGED <<coreVars, extButPush>>

\* sleepWithCancel: the timer fires, the loop goes round
PushWake ==
    /\ pushPC = "sleeping"
    /\ pushPC' = "top"
    /\ UNCHANGED <<pConfig, clients, pushConfigOK, pushList, pushClients, pushFrames,
                   attempts, failedPrev, pushTick>>
    /\ UNCHANGED cancelled
    /\ UNCHANGED <<coreVars, extButPush>>

\* sleepWithCancel: ctx.Done() is closed, Run returns
PushReturnInSleep ==
    /\ pushPC = "sleeping"
    /\ cancelled
    /\ pushPC' = "returned"
    /\ UNCHANGED <<pConfig, clients, pushConfigOK, pushList, pushClients, pushFrames,
                   attempts, failedPrev, pushTick>>
    /\ UNCHANGED cancelled
    /\ UNCHANGED <<coreVars, extButPush>>

\* agents connect and disconnect while the scheduler sleeps
ClientsChange(connected) ==
    /\ pushPC = "sleeping"
    /\ connected # clients
    /\ clients' = connected
    /\ UNCHANGED <<pConfig, pushPC, pushConfigOK, pushList, pushClients, pushFrames,
                   attempts, failedPrev, pushTick>>
    /\ UNCHANGED cancelled
    /\ UNCHANGED <<coreVars, extButPush>>

InitPush ==
    /\ now = 1000
    /\ ticks = 0
    /\ AlertTablesInit
    /\ PropertyInit
    /\ RollupTablesInit
    /\ QueryIdle
    /\ IngestIdle
    /\ AgentsInit
    /\ CascadeInit
    /\ StartupIdle
    /\ DefaultsIdle
    /\ NotifyIdle
    /\ LoopsIdle
    /\ ClearIdle
    /\ OfflineIdle
    /\ SamplingIdle
    /\ StopIdle
    /\ AtomicIdle
    /\ TickIdle
    /\ OAuthIdle
    /\ cancelled = FALSE
    /\ pConfig \in PublicIPConfigs
    /\ clients \in SUBSET Agents
    /\ pushPC = "top"
    /\ pushConfigOK = TRUE
    /\ pushList = {}
    /\ pushClients = {}
    /\ pushFrames = {}
    /\ attempts = [a \in Agents |-> 0]
    /\ failedPrev = {}
    /\ pushTick = 0

NextPush ==
    \/ \E configOK \in BOOLEAN : PushTop(configOK)
    \/ \E a \in Agents, ok \in BOOLEAN : PushSend(a, ok)
    \/ PushSleep
    \/ PushWake
    \/ PushReturnAtTop
    \/ PushReturnInSleep
    \/ \E connected \in SUBSET Agents : ClientsChange(connected)
    \/ Cancel

SpecPush == InitPush /\ [][NextPush]_vars

\* the family is enabled and its scope is not custom or the agent is in its
\* custom list
WantsIPv4(a) ==
    pConfig.ipv4Enabled /\ (pConfig.ipv4Scope # "custom" \/ a \in pConfig.ipv4AgentIds)

WantsIPv6(a) ==
    pConfig.ipv6Enabled /\ (pConfig.ipv6Scope # "custom" \/ a \in pConfig.ipv6AgentIds)

\* sendConfigToOnlineAgents has visited every agent of the current tick
PushTickDone == pushTick > 0 /\ pushPC \in {"sending", "sleeping"} /\ pushList = {}

\* C26: in a push tick every connected agent is sent at most one
\* public_ip_config frame; its ipv4Enabled (ipv6Enabled) is true exactly when
\* the family is enabled and its scope is not custom or the agent is in the
\* custom list of the family; an agent targeted by neither family is sent no
\* frame in the tick
C26_FramePerScope ==
    /\ \A a \in Agents : attempts[a] <= 1
    /\ \A f \in pushFrames :
           /\ f.agentID \in pushClients
           /\ f.ipv4Enabled <=> WantsIPv4(f.agentID)
           /\ f.ipv6Enabled <=> WantsIPv6(f.agentID)
    /\ \A a \in Agents :
           (~WantsIPv4(a) /\ ~WantsIPv6(a)) =>
               /\ attempts[a] = 0
               /\ \A f \in pushFrames : f.agentID # a

\* IPv4 is on for the custom list (a1), IPv6 is off, a1 and a2 are
\* connected: the tick is over, a1 was sent a frame with IPv4 alone, a2 none
C26_Witness ==
    /\ PushTickDone
    /\ pConfig.ipv4Enabled /\ pConfig.ipv4Scope = "custom" /\ pConfig.ipv4AgentIds = {"a1"}
    /\ ~pConfig.ipv6Enabled
    /\ pushClients = {"a1", "a2"}
    /\ attempts["a1"] = 1
    /\ attempts["a2"] = 0
    /\ \E f \in pushFrames : f.agentID = "a1" /\ f.ipv4Enabled /\ ~f.ipv6Enabled

\* C27: when the send to an agent fails in a push tick it is not tried again
\* in that tick, the tick still sends to every other connected agent, and
\* the next tick sends to the agent again if it is connected then
C27_NoRetryNextTickSends ==
    /\ \A a \in Agents : attempts[a] <= 1
    /\ PushTickDone =>
           /\ \A a \in pushClients :
                  (WantsIPv4(a) \/ WantsIPv6(a)) =>
                      /\ attempts[a] = 1
                      /\ \E f \in pushFrames : f.agentID = a
           /\ \A a \in failedPrev \cap pushClients :
                  /\ attempts[a] = 1
                  /\ \E f \in pushFrames : f.agentID = a

\* the send to a1 failed in the first tick; the second tick is over and has
\* sent to a1, this time with success, and to a2, where it failed
C27_Witness ==
    /\ PushTickDone
    /\ pushTick = 2
    /\ failedPrev = {"a1"}
    /\ pushClients = {"a1", "a2"}
    /\ attempts["a1"] = 1
    /\ attempts["a2"] = 1
    /\ \E f \in pushFrames : f.agentID = "a1" /\ f.ok
    /\ \E f \in pushFrames : f.agentID = "a2" /\ ~f.ok

----------------------------------------------------------------------------
(* Shutdown: the ticker loops and the push loop under ctx.Done() *)

\* runAggregation: the bucket widths, in the order of the loop
buckets == <<60, 300, 3600>>

\* StartCleanupTask, the select: the ticker has fired, cleanupOldMetrics is called
CleanupTick ==
    /\ cleanupPC = "waiting"
    /\ cleanupPC' = "running"
    /\ UNCHANGED <<aggPC, aggLeft, pcAtCancel, cancelled>>
    /\ UNCHANGED <<coreVars, extButLoops>>

\* cleanupOldMetrics returns, with or without an error of DeleteOldMetrics,
\* and the loop is back in the select
CleanupDone ==
    /\ cleanupPC = "running"
    /\ cleanupPC' = "waiting"
    /\ UNCHANGED <<aggPC, aggLeft, pcAtCancel, cancelled>>
    /\ UNCHANGED <<coreVars, extButLoops>>

\* a select without the case of ctx.Done(): the task stays in its loop
CleanupReturnNever ==
    /\ cleanupPC = "waiting"
    /\ cancelled
    /\ UNCHANGED vars

\* StartCleanupTask, the select: ctx.Done() is closed, the task returns
CleanupReturn ==
    /\ cleanupPC = "waiting"
    /\ cancelled
    /\ cleanupPC' = "returned"
    /\ UNCHANGED <<aggPC, aggLeft, pcAtCancel, cancelled>>
    /\ UNCHANGED <<coreVars, extButLoops>>

\* StartAggregationTask, the select: the ticker has fired, runAggregation is called
AggTick ==
    /\ aggPC = "waiting"
    /\ aggPC' = "running"
    /\ aggLeft' = buckets
    /\ UNCHANGED <<cleanupPC, pcAtCancel, cancelled>>
    /\ UNCHANGED <<coreVars, extButLoops>>

\* runAggregation, one turn of its loop: the aggregateMetric calls of a bucket
AggBucket ==
    /\ aggPC = "running"
    /\ aggLeft # <<>>
    /\ aggLeft' = Tail(aggLeft)
    /\ UNCHANGED <<cleanupPC, aggPC, pcAtCancel, cancelled>>
    /\ UNCHANGED <<coreVars, extButLoops>>

\* runAggregation returns and the loop is back in the select
AggDone ==
    /\ aggPC = "running"
    /\ aggLeft = <<>>
    /\ aggPC' = "waiting"
    /\ UNCHANGED <<cleanupPC, aggLeft, pcAtCancel, cancelled>>
    /\ UNCHANGED <<coreVars, extButLoops>>

\* StartAggregationTask, the select: ctx.Done() is closed, the task returns
AggReturn ==
    /\ aggPC = "waiting"
    /\ cancelled
    /\ aggPC' = "returned"
    /\ UNCHANGED <<cleanupPC, aggLeft, pcAtCancel, cancelled>>
    /\ UNCHANGED <<coreVars, extButLoops>>

\* the stored configs of the shutdown runs: the push on for every agent, and off
ShutdownConfigs ==
    {c \in PublicIPConfigs :
        /\ c.intervalSeconds = 300
        /\ c.ipv4Enabled /\ c.ipv6Enabled
        /\ c.ipv4Scope = "all" /\ c.ipv6Scope = "all"
        /\ c.ipv4AgentIds = {} /\ c.ipv6AgentIds = {}}

\* the three tasks are started, each at its loop
InitShutdown ==
    /\ now = 1000
    /\ ticks = 0
    /\ AlertTablesInit
    /\ PropertyInit
    /\ RollupTablesInit
    /\ QueryIdle
    /\ IngestIdle
    /\ AgentsInit
    /\ CascadeInit
    /\ StartupIdle
    /\ DefaultsIdle
    /\ NotifyIdle
    /\ ClearIdle
    /\ OfflineIdle
    /\ SamplingIdle
    /\ StopIdle
    /\ AtomicIdle
    /\ TickIdle
    /\ OAuthIdle
    /\ cancelled = FALSE
    /\ pConfig \in ShutdownConfigs
    /\ clients = Agents
    /\ pushPC = "top"
    /\ pushConfigOK = TRUE
    /\ pushList = {}
    /\ pushClients = {}
    /\ pushFrames = {}
    /\ attempts = [a \in Agents |-> 0]
    /\ failedPrev = {}
    /\ pushTick = 0
    /\ cleanupPC = "waiting"
    /\ aggPC = "waiting"
    /\ aggLeft = <<>>
    /\ pcAtCancel = <<>>

\* the steps of StartCleanupTask
CleanupTask == CleanupTick \/ CleanupDone \/ CleanupReturn

\* the steps of StartAggregationTask
AggregationTask == AggTick \/ AggBucket \/ AggDone \/ AggReturn

\* the steps of PublicIPService.Run
PushTask ==
    \/ \E configOK \in BOOLEAN : PushTop(configOK)
    \/ \E a \in Agents, ok \in BOOLEAN : PushSend(a, ok)
    \/ PushSleep
    \/ PushWake
    \/ PushReturnAtTop
    \/ PushReturnInSleep

NextShutdown ==
    \/ CleanupTick
    \/ CleanupDone
    \/ CleanupReturn
    \/ AggTick
    \/ AggBucket
    \/ AggDone
    \/ AggReturn
    \/ \E configOK \in BOOLEAN : PushTop(configOK)
    \/ \E a \in Agents, ok \in BOOLEAN : PushSend(a, ok)
    \/ PushSleep
    \/ PushWake
    \/ PushReturnAtTop
    \/ PushReturnInSleep
    \/ Cancel

SpecShutdown == InitShutdown /\ [][NextShutdown]_vars

\* each task keeps running (a goroutine is scheduled, a call it makes
\* returns); a select with ctx.Done() closed picks that case at random among
\* the ready ones, so a task that comes back to its select again and again
\* does return
FairShutdown ==
    /\ WF_vars(CleanupTask)
    /\ SF_vars(CleanupReturn)
    /\ WF_vars(AggregationTask)
    /\ SF_vars(AggReturn)
    /\ WF_vars(PushTask)

SpecShutdownFair == SpecShutdown /\ FairShutdown

\* the three loops have returned
AllReturned ==
    /\ cleanupPC = "returned"
    /\ aggPC = "returned"
    /\ pushPC = "returned"

\* C28: after the context is cancelled the rollup loop, the retention loop
\* and the public-IP push loop each eventually return, whether the
\* cancellation comes while the loop waits for its next tick or while a tick
\* runs; a loop returns from its wait only, so a running tick completes first
C28_LoopsReturnAfterCancel ==
    /\ cancelled ~> AllReturned
    /\ [][/\ (cleanupPC' = "returned" /\ cleanupPC # "returned") =>
                 cleanupPC = "waiting" /\ cancelled
          /\ (aggPC' = "returned" /\ aggPC # "returned") =>
                 aggPC = "waiting" /\ aggLeft = <<>> /\ cancelled
          /\ (pushPC' = "returned" /\ pushPC # "returned") =>
                 pushPC \in {"top", "sleeping"} /\ pushList = {} /\ cancelled]_vars

\* the context was cancelled while the retention tick and the push tick
\* were running and the rollup loop was waiting; the three loops have returned
C28_Witness ==
    /\ cancelled
    /\ AllReturned
    /\ pcAtCancel = <<"running", "waiting", "sending">>
    /\ attempts = [a \in Agents |-> 1]

----------------------------------------------------------------------------
(* DELETE of alert records: clearAlertRecords and AlertHandler.ClearAlertRecords *)

\* the agentId the client passes to clearAlertRecords: none, or an agent
ClearAgentIDs == {""} \cup Agents

\* clearAlertRecords of the client: the URL of the DELETE, the agentId as a
\* query parameter when there is one
ClearURL(agentId) ==
    [path |-> "/admin/alert-records", agentId |-> agentId]

\* a handler that deletes the records of the agent of the request
RecordsAfterClearByAgent(records, url) ==
    IF url.agentId = "" THEN ClearRecords(records)
    ELSE {r \in records : r.agentID # url.agentId}

\* AlertHandler.ClearAlertRecords: alertService.Clear on the context of the
\* request; the query of the URL is not read
RecordsAfterClear(records, url) ==
    ClearRecords(records)

\* the client sends the DELETE and the handler serves it
DeleteAlertRecords(agentId) ==
    /\ clearCount < MaxClears
    /\ alertRecords # {}
    /\ clearCount' = clearCount + 1
    /\ clearReq' = agentId
    /\ alertRecords' = RecordsAfterClear(alertRecords, ClearURL(agentId))
    /\ UNCHANGED <<now, ticks, alertStates, nextRecordID, streakStart, streakFired,
                   streakCollected>>
    /\ UNCHANGED <<propVars, rollupVars, queryVars, ingestVars, agentVars, extButClear>>

InitClear ==
    /\ now = 1000
    /\ ticks = 0
    /\ AlertTablesInit
    /\ PropertyInit
    /\ RollupTablesInit
    /\ QueryIdle
    /\ IngestIdle
    /\ AgentsInit
    /\ ExtInit

NextClear ==
    \/ Scan
    \/ AdvanceClock
    \/ \E agentId \in ClearAgentIDs : DeleteAlertRecords(agentId)

SpecClear == InitClear /\ [][NextClear]_vars

\* the step is a DELETE of alert records
ClearStep == clearCount' = clearCount + 1

\* C29: a DELETE of alert records that carries an agentId removes the
\* records of that agent only and leaves the records of every other agent
\* as they were; a DELETE without agentId removes all records
C29_ClearByAgent ==
    [][ClearStep =>
          IF clearReq' = ""
          THEN alertRecords' = {}
          ELSE alertRecords' = {r \in alertRecords : r.agentID # clearReq'}]_vars

\* the part of C29 that holds: a DELETE without agentId removes all records,
\* and a DELETE with one leaves no record of that agent
C29_ClearRemovesAgent ==
    [][ClearStep =>
          IF clearReq' = ""
          THEN alertRecords' = {}
          ELSE \A r \in alertRecords' : r.agentID # clearReq']_vars

----------------------------------------------------------------------------
(* The agent-offline rule of the alert engine (spec.md 4.6, special rules) *)

MaxScans == 4

AlertTypeAgentOffline == "agent_offline"

\* the alert_state key of the offline rule of an agent
OfflineID(a) == <<a, AlertTypeAgentOffline>>

\* the time between frames and scans: one second, two seconds, and one
\* second less than the offline duration
OfflineClockSteps ==
    {1000, 2000, (DefaultAlertRules.agentOfflineDuration - 1) * 1000}

\* the row of an agent that sent its last frame at t
ConnectedAgent(id, seq, t) ==
    [StoredAgent(id, seq, 1) EXCEPT !.lastSeenAt = t, !.updatedAt = t]

\* the value of the offline rule: the time since the agent was last seen
OfflineValue(row, t) == t - row.lastSeenAt

\* the threshold of the offline rule: the offline duration, in milliseconds
OfflineThreshold == DefaultAlertRules.agentOfflineDuration * 1000

\* an offline rule that also counts a silence of exactly the duration
IsSilentAtOrAbove(row, t) == OfflineValue(row, t) >= OfflineThreshold

\* value > threshold of the offline rule
IsSilent(row, t) == OfflineValue(row, t) > OfflineThreshold

\* the record the engine inserts when the agent is found offline
OfflineRecord(id, v, t) ==
    [id |-> 0, agentID |-> id[1], alertType |-> id[2],
     threshold |-> OfflineThreshold, actualValue |-> v,
     status |-> "firing", firedAt |-> t, resolvedAt |-> 0]

\* the state row of the offline rule above its threshold
OfflineTouchState(s0, v, t) ==
    IF s0.startTime = 0
    THEN [s0 EXCEPT !.startTime = t, !.lastCheckTime = t, !.isFiring = FALSE,
                    !.value = v, !.threshold = OfflineThreshold]
    ELSE [s0 EXCEPT !.lastCheckTime = t, !.value = v]

\* one scan of the offline rule of one agent: above the threshold the
\* agent is flipped to offline and, unless the rule is firing already, one
\* record is inserted; at or below it a firing record is resolved and the
\* state row goes
CheckAgentOffline(a) ==
    /\ DefaultAlertRules.agentOfflineEnabled
    /\ Len(scanLog) < MaxScans
    /\ AgentsById(agents, a) # {}
    /\ LET row == CHOOSE x \in AgentsById(agents, a) : TRUE
           id == OfflineID(a)
           v == OfflineValue(row, now)
           s0 == IF HasAlertState(alertStates, id) THEN alertStates[id]
                 ELSE ZeroState(id)
       IN  IF IsSilent(row, now)
           THEN LET s1 == OfflineTouchState(s0, v, now)
                    fire == ShouldFire(s1, now)
                    s2 == IF fire
                          THEN [s1 EXCEPT !.lastRecordID = nextRecordID,
                                          !.isFiring = TRUE]
                          ELSE s1
                IN  /\ fire => nextRecordID <= MaxRecords
                    /\ alertRecords' =
                           IF fire
                           THEN CreateAlertRecord(alertRecords,
                                    OfflineRecord(id, v, now), nextRecordID)
                           ELSE alertRecords
                    /\ nextRecordID' = IF fire THEN nextRecordID + 1 ELSE nextRecordID
                    /\ alertStates' = SaveAlertState(alertStates, s2, now)
                    /\ agents' = UpdateStatus(agents, a, 0, row.lastSeenAt)
                    /\ scanLog' = Append(scanLog,
                           [agentID |-> a, at |-> now, value |-> v,
                            outcome |-> IF fire THEN "fired" ELSE "firing"])
           ELSE LET found == RecordsByID(alertRecords, s0.lastRecordID)
                    resolve == s0.isFiring /\ found # {}
                IN  /\ alertRecords' =
                           IF resolve
                           THEN LET r == CHOOSE x \in found : TRUE
                                IN  UpdateAlertRecord(alertRecords,
                                        [r EXCEPT !.status = "resolved",
                                                  !.resolvedAt = now])
                           ELSE alertRecords
                    /\ alertStates' = DeleteAlertState(alertStates, id)
                    /\ UNCHANGED <<nextRecordID, agents>>
                    /\ scanLog' = Append(scanLog,
                           [agentID |-> a, at |-> now, value |-> v,
                            outcome |-> IF resolve THEN "resolved" ELSE "online"])
    /\ UNCHANGED <<now, ticks, streakStart, streakFired, streakCollected>>
    /\ UNCHANGED <<regCalls, regCount>>
    /\ UNCHANGED <<propVars, rollupVars, queryVars, ingestVars, extButOffline>>

\* the clock moves on between frames and scans
OfflineClock ==
    \E dt \in OfflineClockSteps :
        /\ ticks < MaxTicks
        /\ now' = now + dt
        /\ ticks' = ticks + 1
        /\ UNCHANGED alertVars
        /\ UNCHANGED <<propVars, rollupVars, queryVars, ingestVars, agentVars, extVars>>

\* the server is up and the agent a2 has just sent a frame
InitOffline ==
    /\ now = 1000
    /\ ticks = 0
    /\ AlertTablesInit
    /\ PropertyInit
    /\ RollupTablesInit
    /\ QueryIdle
    /\ IngestIdle
    /\ agents = {ConnectedAgent("a2", 102, 1000)}
    /\ regCalls = [c \in Callers |-> NoCall]
    /\ regCount = 0
    /\ CascadeInit
    /\ initPC = "done"
    /\ initList = {}
    /\ statusCall = NoStatusCall
    /\ statusCount = 0
    /\ DefaultsIdle
    /\ NotifyIdle
    /\ PushIdle
    /\ LoopsIdle
    /\ ClearIdle
    /\ OfflineIdle
    /\ SamplingIdle
    /\ StopIdle
    /\ AtomicIdle
    /\ TickIdle
    /\ OAuthIdle

\* the agent sends frames and reconnects, the engine scans, time passes
NextOffline ==
    \/ \E a \in Agents : CheckAgentOffline(a)
    \/ OfflineClock
    \/ UpdateAgentStatus("a2", 1)
    \/ \E info \in {i \in RegisterInfos : i.id = "a2"}, key \in ValidKeys :
           regCount < MaxStartupRegs /\ RegisterValidate("c1", info, key)
    \/ RegisterFind("c1")
    \/ RegisterUpdate("c1")

SpecOffline == InitOffline /\ [][NextOffline]_vars

----------------------------------------------------------------------------
(* Claims about the agent-offline rule *)

\* the step is an offline check of agent a
OfflineStepOf(a) ==
    /\ Len(scanLog') = Len(scanLog) + 1
    /\ scanLog'[Len(scanLog')].agentID = a

\* the firing offline records of an agent
FiringOfflineRecords(records, a) ==
    {r \in records : /\ r.agentID = a
                     /\ r.alertType = AlertTypeAgentOffline
                     /\ r.status = "firing"}

\* the time the agent of the row has been silent for
SilentFor(a) == now - (CHOOSE x \in AgentsById(agents, a) : TRUE).lastSeenAt

\* C30: with an offline duration of 300 s and the last frame of an agent
\* at t, a scan at most 300 s after t (t + 299 s) creates no record and
\* leaves an online agent online; a scan more than 300 s after t
\* (t + 301 s) creates exactly one firing offline record for the agent when
\* none is firing and none when one is, so that a silence yields one
\* record; and a scan after the agent was seen again (its reconnection at
\* t + 600 s) resolves that record at the time of the scan.
C30_OfflineScenario ==
    [][\A a \in Agents :
          OfflineStepOf(a) =>
              LET firing == FiringOfflineRecords(alertRecords, a)
              IN  /\ SilentFor(a) <= 300 * 1000 =>
                         /\ NewRecords = {}
                         /\ agents' = agents
                         /\ FiringOfflineRecords(alertRecords', a) = {}
                         /\ \A r \in firing :
                                [r EXCEPT !.status = "resolved",
                                          !.resolvedAt = now] \in alertRecords'
                  /\ (SilentFor(a) > 300 * 1000 /\ firing = {}) =>
                         /\ Cardinality(NewRecords) = 1
                         /\ \A r \in NewRecords :
                                /\ r.agentID = a
                                /\ r.alertType = AlertTypeAgentOffline
                                /\ r.status = "firing"
                                /\ r.firedAt = now
                         /\ Cardinality(FiringOfflineRecords(alertRecords', a)) = 1
                  /\ (SilentFor(a) > 300 * 1000 /\ firing # {}) =>
                         /\ NewRecords = {}
                         /\ alertRecords' = alertRecords]_vars

\* the scenario ran: checked online at t + 299 s, found offline at
\* t + 301 s, checked again at t + 600 s without a second record, then
\* reconnected at t + 600 s and the one record was resolved
C30_Witness ==
    /\ Len(scanLog) = 4
    /\ scanLog[1].outcome = "online" /\ scanLog[1].value = 299 * 1000
    /\ scanLog[2].outcome = "fired" /\ scanLog[2].value = 301 * 1000
    /\ scanLog[3].outcome = "firing" /\ scanLog[3].value = 600 * 1000
    /\ scanLog[4].outcome = "resolved" /\ scanLog[4].at = 1000 + 600 * 1000
    /\ regCalls["c1"].result = "updated"
    /\ Cardinality(alertRecords) = 1
    /\ \A r \in alertRecords :
           /\ r.status = "resolved"
           /\ r.firedAt = 1000 + 301 * 1000
           /\ r.resolvedAt = 1000 + 600 * 1000

----------------------------------------------------------------------------
(* The sample read of the alert scan (spec.md 4.6, failure semantics) *)

MaxReadFailures == 2

\* step 1 of the scan: the latest value of the metric of the rule, or an error
SampleRead(ok, v) == [ok |-> ok, value |-> v]

\* an engine that takes a failed read for the value 0
ScanKeyFailureAsZero(id, sample) ==
    CheckAlert(id, IF sample.ok THEN sample.value ELSE 0)

\* one (agent, rule) pair of a scan: a failed read ends the pair before the
\* state lookup
ScanKey(id, sample) ==
    IF sample.ok THEN CheckAlert(id, sample.value) ELSE UNCHANGED alertVars

\* the scan of one pair, with a sample read that succeeds or fails
ScanSample ==
    \E id \in StateIDs, ok \in BOOLEAN, v \in SampleValues :
        /\ ~ok => readFailures < MaxReadFailures
        /\ ScanKey(id, SampleRead(ok, v))
        /\ readFailed' = IF ok THEN <<>> ELSE id
        /\ readFailures' = IF ok THEN readFailures ELSE readFailures + 1
        /\ UNCHANGED <<now, ticks>>
        /\ UNCHANGED <<propVars, rollupVars, queryVars, ingestVars, agentVars,
                       extButSampling>>

InitSampling ==
    /\ now = 1000
    /\ ticks = 0
    /\ AlertTablesInit
    /\ PropertyInit
    /\ RollupTablesInit
    /\ QueryIdle
    /\ IngestIdle
    /\ AgentsInit
    /\ ExtInit

NextSampling == ScanSample \/ AdvanceClock

SpecSampling == InitSampling /\ [][NextSampling]_vars

----------------------------------------------------------------------------
(* Claims about the sample read *)

\* the step is a scan of a pair whose sample read failed
ReadFailedStep == readFailures' = readFailures + 1

----------------------------------------------------------------------------
(* The writes of a scan transition and a stop of the server between them
   (spec.md 4.6 step 3; alert_record_repo.go) *)

MaxCrashes == 1

\* the state row of the pair as the scan finds it
StateOf(id) ==
    IF HasAlertState(alertStates, id) THEN alertStates[id] ELSE ZeroState(id)

\* the scan of the pair takes the transition to firing
WillFire(id, v) ==
    v > CPUThreshold /\ ShouldFire(TouchState(StateOf(id), v, now), now)

\* the scan of the pair takes the transition to resolved
WillResolve(id, v) ==
    /\ ~(v > CPUThreshold)
    /\ StateOf(id).isFiring
    /\ RecordsByID(alertRecords, StateOf(id).lastRecordID) # {}

\* a scan with one write (the state row saved or deleted): no transition
ScanOneWrite(id, v) ==
    /\ scanPC.phase = "idle"
    /\ ~WillFire(id, v)
    /\ ~WillResolve(id, v)
    /\ CheckAlert(id, v)
    /\ UNCHANGED <<now, ticks>>
    /\ UNCHANGED <<propVars, rollupVars, queryVars, ingestVars, agentVars, extVars>>

\* first write of a transition: CreateAlertRecord of the firing record, or
\* UpdateAlertRecord of the record that is resolved
ScanWriteRecord(id, v) ==
    /\ scanPC.phase = "idle"
    /\ WillFire(id, v) \/ WillResolve(id, v)
    /\ IF WillFire(id, v)
       THEN /\ nextRecordID <= MaxRecords
            /\ alertRecords' = CreateAlertRecord(alertRecords,
                                   FiringRecord(id, v, now), nextRecordID)
            /\ nextRecordID' = nextRecordID + 1
            /\ scanPC' = [phase |-> "fire", id |-> id,
                          state |-> [TouchState(StateOf(id), v, now) EXCEPT
                                        !.lastRecordID = nextRecordID,
                                        !.isFiring = TRUE]]
       ELSE /\ LET r == CHOOSE x \in RecordsByID(alertRecords,
                                                   StateOf(id).lastRecordID) : TRUE
               IN  alertRecords' = UpdateAlertRecord(alertRecords,
                       [r EXCEPT !.status = "resolved", !.resolvedAt = now])
            /\ UNCHANGED nextRecordID
            /\ scanPC' = [phase |-> "resolve", id |-> id, state |-> StateOf(id)]
    /\ UNCHANGED <<alertStates, streakStart, streakFired, streakCollected>>
    /\ UNCHANGED crashes
    /\ UNCHANGED <<now, ticks>>
    /\ UNCHANGED <<propVars, rollupVars, queryVars, ingestVars, agentVars, extButStop>>

\* second write of a transition: SaveAlertState of the firing state, or
\* DeleteAlertState of the resolved one
ScanWriteState ==
    /\ scanPC.phase # "idle"
    /\ alertStates' = IF scanPC.phase = "fire"
                      THEN SaveAlertState(alertStates, scanPC.state, now)
                      ELSE DeleteAlertState(alertStates, scanPC.id)
    /\ scanPC' = NoScan
    /\ UNCHANGED <<alertRecords, nextRecordID, streakStart, streakFired,
                   streakCollected>>
    /\ UNCHANGED crashes
    /\ UNCHANGED <<now, ticks>>
    /\ UNCHANGED <<propVars, rollupVars, queryVars, ingestVars, agentVars, extButStop>>

\* the server is stopped and started again: the tables stay, the scan in
\* progress is lost
StopServer ==
    /\ crashes < MaxCrashes
    /\ crashes' = crashes + 1
    /\ scanPC' = NoScan
    /\ UNCHANGED alertVars
    /\ UNCHANGED <<now, ticks>>
    /\ UNCHANGED <<propVars, rollupVars, queryVars, ingestVars, agentVars, extButStop>>

\* the clock moves on while no write is pending
StopClock == scanPC.phase = "idle" /\ AdvanceClock

InitStop ==
    /\ now = 1000
    /\ ticks = 0
    /\ AlertTablesInit
    /\ PropertyInit
    /\ RollupTablesInit
    /\ QueryIdle
    /\ IngestIdle
    /\ AgentsInit
    /\ ExtInit

NextStop ==
    \/ \E id \in StateIDs, v \in SampleValues : ScanOneWrite(id, v)
    \/ \E id \in StateIDs, v \in SampleValues : ScanWriteRecord(id, v)
    \/ ScanWriteState
    \/ StopServer
    \/ StopClock

SpecStop == InitStop /\ [][NextStop]_vars

----------------------------------------------------------------------------
(* Claims about a stop in the middle of a scan *)

\* the firing records of a pair
FiringRecordsOfKey(id) ==
    {r \in alertRecords : RecordKey(r) = id /\ r.status = "firing"}

\* the persisted rows of the pair show a whole transition
WholeTransition(id) ==
    IF StateOf(id).isFiring
    THEN /\ Cardinality(FiringRecordsOfKey(id)) = 1
         /\ \A r \in FiringRecordsOfKey(id) : r.id = StateOf(id).lastRecordID
    ELSE FiringRecordsOfKey(id) = {}

\* C32: whenever the server has been stopped, at any point of a scan, the
\* persisted rows show no partial transition: each pair is firing together
\* with its one firing record, or not firing with no firing record; so a
\* streak never gets a second firing record after the restart.
C32_NoPartialTransitionAfterStop ==
    (crashes > 0 /\ scanPC.phase = "idle") =>
        \A id \in StateIDs : WholeTransition(id)

\* without a stop, the rows show whole transitions between scans
C32_WholeTransitionsWithoutStop ==
    (crashes = 0 /\ scanPC.phase = "idle") =>
        \A id \in StateIDs : WholeTransition(id)

\* a second record fires for the streak whose first record is still firing
C32_SecondRecordOfStreak ==
    \E id \in StateIDs : Cardinality(FiringRecordsOfKey(id)) = 2

----------------------------------------------------------------------------
(* DeleteAgent step by step inside its transaction (agent_service.go 1031-1061) *)

MaxDeletes == 2

\* the tables each step of DeleteAgent deletes from, in the order of the code:
\* DeleteAgentMetrics, DeleteByAgentId, DeleteAuditResults, DeleteById
CascadeSteps ==
    <<{"metrics", "metrics_agg"}, {"monitor_stats"}, {"audit_results"}, {"agents"}>>

\* the steps a call runs to completion: all of them, or those before the
\* step that returns the error
StepsDone(failAt) == IF failAt = 0 THEN Len(CascadeSteps) ELSE failAt - 1

\* the tables inside the transaction after the first n steps
DeleteThrough(tables, agentID, n) ==
    [t \in OwnedTables |->
        IF \E i \in 1..n : t \in CascadeSteps[i]
        THEN tables[t] \ {agentID} ELSE tables[t]]

\* a transaction that commits what its function wrote before the error
TransactionCommitsAlways(before, after, err) == after

\* Transaction: commit when the function returns nil, roll back when it
\* returns an error
Transaction(before, after, err) == IF err THEN before ELSE after

\* one DeleteAgent call whose step failAt fails (0: no step fails)
DeleteAgentSteps(agentID, failAt) ==
    /\ deleteCalls < MaxDeletes
    /\ agentID \in owned["agents"]
    /\ owned' = Transaction(owned,
                    DeleteThrough(owned, agentID, StepsDone(failAt)),
                    failAt # 0)
    /\ deletedOK' = IF failAt = 0 THEN deletedOK \cup {agentID} ELSE deletedOK
    /\ deleteResult' = [id |-> agentID, failAt |-> failAt, err |-> failAt # 0]
    /\ deleteCalls' = deleteCalls + 1
    /\ UNCHANGED <<inFlight, stores>>
    /\ UNCHANGED <<coreVars, extButCascadeAtomic>>

InitAtomic ==
    /\ now = 1000
    /\ ticks = 0
    /\ AlertTablesInit
    /\ PropertyInit
    /\ RollupTablesInit
    /\ QueryIdle
    /\ IngestIdle
    /\ AgentsInit
    /\ ExtInit

NextAtomic ==
    \/ \E a \in Agents : RegisterOwned(a)
    \/ \E a \in Agents, t \in WrittenTables : StoreOwned(a, t)
    \/ \E a \in Agents, failAt \in 0..Len(CascadeSteps) : DeleteAgentSteps(a, failAt)

SpecAtomic == InitAtomic /\ [][NextAtomic]_vars

----------------------------------------------------------------------------
(* Claims about the atomicity of DeleteAgent *)

DeleteStep == deleteCalls' = deleteCalls + 1

----------------------------------------------------------------------------
(* One rollup tick over its (kind, bucket) pairs (agent_service.go 655-706) *)

MaxAggTicks == 3
MaxTickFailures == 2

\* the time between two ticks: the period of one minute, or two
TickPeriods == {60000, 120000}

\* runAggregation: for each bucket, each kind in turn
TickPairs ==
    [i \in 1..(Len(TickBuckets) * Len(TickKinds)) |->
        <<TickKinds[((i - 1) % Len(TickKinds)) + 1],
          TickBuckets[((i - 1) \div Len(TickKinds)) + 1]>>]

\* a getAggregationStart that starts again at lastBucket
AggregationStartOfSameBucket(lastBucket, bucketSeconds, readOK) ==
    IF readOK /\ lastBucket > 0
    THEN lastBucket
    ELSE AlignDown(now - RetentionMs(retentionHours), bucketSeconds * 1000)

\* getAggregationStart for the pair with the stored lastBucket
AggregationStartOf(lastBucket, bucketSeconds, readOK) ==
    IF readOK /\ lastBucket > 0
    THEN lastBucket + bucketSeconds * 1000
    ELSE AlignDown(now - RetentionMs(retentionHours), bucketSeconds * 1000)

\* a runAggregation that gives up the tick at the first failed pair
RemainingAfterAttemptStop(left, outcome) ==
    IF outcome \in {"aggfail", "storefail"} THEN <<>> ELSE Tail(left)

\* runAggregation: aggregateMetric returns nothing, the loop goes on with
\* the next pair whatever happened
RemainingAfterAttempt(left, outcome) == Tail(left)

\* the ticker fires: runAggregation starts
TickStart(dt) ==
    /\ tickLeft = <<>>
    /\ tickNo < MaxAggTicks
    /\ tickNo' = tickNo + 1
    /\ now' = now + dt
    /\ tickLeft' = TickPairs
    /\ UNCHANGED <<pairProgress, pairLast, pairPrev, pairAggEnd, tickFailures>>
    /\ UNCHANGED <<ticks, alertVars, propVars, rollupVars, queryVars, ingestVars,
                   agentVars, extButTick>>

\* aggregateMetric for the next pair of the tick; readOK, aggOK and storeOK
\* are the outcomes of GetAggregationProgress, of the aggregate function and
\* of UpsertAggregationProgress
TickPair(readOK, aggOK, storeOK) ==
    /\ tickLeft # <<>>
    /\ LET p == Head(tickLeft)
           bucketMs == p[2] * 1000
           start == AggregationStartOf(pairProgress[p], p[2], readOK)
           endBucket == AlignDown(now - p[2] * 1000, bucketMs)
           skip == endBucket <= start
           outcome == IF skip THEN "skip"
                      ELSE IF ~aggOK THEN "aggfail"
                      ELSE IF ~storeOK THEN "storefail"
                      ELSE "ok"
           failed == ~(readOK /\ aggOK /\ storeOK)
       IN  /\ failed => tickFailures < MaxTickFailures
           /\ tickFailures' = IF failed THEN tickFailures + 1 ELSE tickFailures
           /\ pairProgress' = IF skip THEN pairProgress
                              ELSE ProgressAfter(pairProgress, p, start, endBucket,
                                                 aggOK, storeOK)
           /\ pairPrev' = [pairPrev EXCEPT ![p] = pairLast[p]]
           /\ pairAggEnd' = IF skip \/ ~aggOK THEN pairAggEnd
                             ELSE [pairAggEnd EXCEPT ![p] = endBucket]
           /\ pairLast' = [pairLast EXCEPT ![p] =
                              [outcome |-> outcome, readOK |-> readOK,
                               fromProgress |-> readOK /\ pairProgress[p] > 0,
                               start |-> start, endBucket |-> endBucket,
                               tick |-> tickNo]]
           /\ tickLeft' = RemainingAfterAttempt(tickLeft, outcome)
    /\ UNCHANGED tickNo
    /\ UNCHANGED <<coreVars, extButTick>>

InitTick ==
    /\ now = RollupBase
    /\ ticks = 0
    /\ AlertTablesInit
    /\ PropertyInit
    /\ RollupTablesInit
    /\ QueryIdle
    /\ IngestIdle
    /\ AgentsInit
    /\ ExtInit

NextTick ==
    \/ \E dt \in TickPeriods : TickStart(dt)
    \/ \E readOK, aggOK, storeOK \in BOOLEAN : TickPair(readOK, aggOK, storeOK)

SpecTick == InitTick /\ [][NextTick]_vars

----------------------------------------------------------------------------
(* Claims about a failed aggregate step *)

\* the last call of the pair is the retry of a call that failed in the
\* aggregate step
RetryOfFailed(p) == pairPrev[p].outcome = "aggfail" /\ pairLast[p].outcome # "none"

\* a failed aggregate step leaves the progress of its pair as it was
FailedKeepsProgress ==
    [][tickLeft # <<>> /\ tickLeft' # tickLeft =>
          LET p == Head(tickLeft)
          IN  pairLast'[p].outcome = "aggfail" =>
                  pairProgress'[p] = pairProgress[p]]_vars

\* every pair of a finished tick was processed in that tick
TickProcessesAll ==
    [](tickLeft = <<>> /\ tickNo > 0 =>
          \A p \in TickPairSet : pairLast[p].tick = tickNo)

----------------------------------------------------------------------------
(* Claims about the ranges of successive aggregations *)

\* the step is a call of aggregateMetric for pair p whose aggregate step
\* succeeded after its progress read succeeded
AggregatedStep(p) ==
    /\ tickLeft # <<>>
    /\ tickLeft' # tickLeft
    /\ Head(tickLeft) = p
    /\ pairLast'[p].outcome \in {"ok", "storefail"}
    /\ pairLast'[p].readOK

----------------------------------------------------------------------------
(* The OAuth state store (part_005 81-120, 240-257; the OIDC service in
   account_service.go 343-377, 440-457 has the same code) *)

MaxOAuthOps == 4
MaxOAuthTicks == 2

\* the lifetime of a state: 10 minutes
StateTTLMs == 10 * 60 * 1000

\* the time between calls: a millisecond, or one millisecond less than the
\* lifetime of a state
OAuthClockSteps == {1, StateTTLMs - 1}

\* validateState: the state is stored and now is before its expiry
validateState(store, st, t) == st \in DOMAIN store /\ t < store[st]

\* cleanExpiredStates: the states whose expiry is before now are dropped
cleanExpiredStates(store, t) ==
    [k \in {j \in DOMAIN store : ~(t > store[j])} |-> store[k]]

\* delete(s.stateStore, state)
DeleteState(store, st) == [k \in (DOMAIN store) \ {st} |-> store[k]]

\* GenerateAuthURL: a fresh random state is stored with its expiry, then the
\* expired states are cleaned
GenerateAuthURL(st) ==
    /\ oauthOps < MaxOAuthOps
    /\ issuedAt[st] = 0
    /\ oauthOps' = oauthOps + 1
    /\ stateStore' = cleanExpiredStates(
           [k \in (DOMAIN stateStore) \cup {st} |->
               IF k = st THEN now + StateTTLMs ELSE stateStore[k]], now)
    /\ issuedAt' = [issuedAt EXCEPT ![st] = now]
    /\ UNCHANGED <<exchangeCalls, accepted>>
    /\ UNCHANGED <<coreVars, extButOAuth>>

\* ExchangeCode, first part: validateState on the state of the callback
ExchangeValidate(c, st) ==
    /\ exchangeCalls[c].pc \in {"idle", "done"}
    /\ oauthOps < MaxOAuthOps
    /\ oauthOps' = oauthOps + 1
    /\ exchangeCalls' = [exchangeCalls EXCEPT ![c] =
           IF validateState(stateStore, st, now)
           THEN [pc |-> "validated", state |-> st, result |-> "none"]
           ELSE [pc |-> "done", state |-> st, result |-> "invalid state"]]
    /\ UNCHANGED <<stateStore, issuedAt, accepted>>
    /\ UNCHANGED <<coreVars, extButOAuth>>

\* ExchangeCode, second part: the state is deleted and the exchange goes on
ExchangeDelete(c) ==
    /\ exchangeCalls[c].pc = "validated"
    /\ stateStore' = DeleteState(stateStore, exchangeCalls[c].state)
    /\ accepted' = [accepted EXCEPT ![exchangeCalls[c].state] = @ + 1]
    /\ exchangeCalls' = [exchangeCalls EXCEPT ![c] =
           [@ EXCEPT !.pc = "done", !.result = "accepted"]]
    /\ UNCHANGED <<issuedAt, oauthOps>>
    /\ UNCHANGED <<coreVars, extButOAuth>>

\* time passes between the calls
OAuthClock ==
    \E dt \in OAuthClockSteps :
        /\ ticks < MaxOAuthTicks
        /\ now' = now + dt
        /\ ticks' = ticks + 1
        /\ UNCHANGED alertVars
        /\ UNCHANGED <<propVars, rollupVars, queryVars, ingestVars, agentVars, extVars>>

InitOAuth ==
    /\ now = 1000
    /\ ticks = 0
    /\ AlertTablesInit
    /\ PropertyInit
    /\ RollupTablesInit
    /\ QueryIdle
    /\ IngestIdle
    /\ AgentsInit
    /\ ExtInit

NextOAuth ==
    \/ \E st \in OAuthStates : GenerateAuthURL(st)
    \/ \E c \in Callers, st \in OAuthStates : ExchangeValidate(c, st)
    \/ \E c \in Callers : ExchangeDelete(c)
    \/ OAuthClock

SpecOAuth == InitOAuth /\ [][NextOAuth]_vars

----------------------------------------------------------------------------
(* Claims about the OAuth state *)

\* C37: a state is accepted by ExchangeCode only if GenerateAuthURL issued
\* it, less than 10 minutes before, and it was not accepted before: each
\* issued state is accepted at most once, also by two callbacks that carry
\* the same state and run concurrently.
C37_StateAcceptedOnce ==
    \A st \in OAuthStates :
        /\ accepted[st] <= 1
        /\ accepted[st] > 0 => issuedAt[st] # 0

\* a callback that runs alone: the state it accepted is gone from the store
C37_AcceptedStateDeleted ==
    \A c \in Callers :
        exchangeCalls[c].result = "accepted" =>
            exchangeCalls[c].state \notin DOMAIN stateStore

----------------------------------------------------------------------------
(* Claims about the content of the pushed frames *)

\* C38: every public_ip_config frame the push loop sends has enabled = true
\* and at least one of ipv4Enabled and ipv6Enabled true; while collection is
\* disabled, or both families are off, the loop sends nothing, and an agent
\* outside every scope is sent nothing: no frame tells an agent to stop.
C38_NoStopFrame ==
    /\ \A f \in pushFrames : f.enabled /\ (f.ipv4Enabled \/ f.ipv6Enabled)
    /\ (~pConfig.enabled \/ (~pConfig.ipv4Enabled /\ ~pConfig.ipv6Enabled)) =>
           pushFrames = {}
    /\ \A a \in Agents :
           (~WantsIPv4(a) /\ ~WantsIPv6(a)) => \A f \in pushFrames : f.agentID # a

\* collection is on for IPv6 alone and for a2 alone, a1 and a2 are
\* connected: the tick is over, a2 got a frame with enabled and IPv6 set,
\* a1 got none
C38_Witness ==
    /\ PushTickDone
    /\ pConfig.enabled /\ ~pConfig.ipv4Enabled /\ pConfig.ipv6Enabled
    /\ pConfig.ipv6Scope = "custom" /\ pConfig.ipv6AgentIds = {"a2"}
    /\ pushClients = {"a1", "a2"}
    /\ \E f \in pushFrames :
           f.agentID = "a2" /\ f.enabled /\ f.ipv6Enabled /\ ~f.ipv4Enabled
    /\ \A f \in pushFrames : f.agentID # "a1"

----------------------------------------------------------------------------
(* Claims about the fields a re-registration writes *)

----------------------------------------------------------------------------
(* The selects of StartCleanupTask and StartAggregationTask after the cancel *)

\* the step enters cleanupOldMetrics from the select of StartCleanupTask
CleanupRunBegins == cleanupPC = "waiting" /\ cleanupPC' = "running"

\* the step enters runAggregation from the select of StartAggregationTask
AggRunBegins == aggPC = "waiting" /\ aggPC' = "running"

\* C40: once the context is cancelled, no run of cleanupOldMetrics and no
\* run of runAggregation begins, also when a tick of the ticker is pending
\* at the cancel or the run before took longer than the period
C40_NoRunBeginsAfterCancel ==
    [][cancelled => ~(CleanupRunBegins \/ AggRunBegins)]_vars

\* what the selects do give: a run begins only from the select, and a task
\* that has returned begins no run
C40_RunBeginsOnlyFromSelect ==
    [][/\ (cleanupPC' = "running" /\ cleanupPC # "running") => cleanupPC = "waiting"
       /\ (aggPC' = "running" /\ aggPC # "running") => aggPC = "waiting"
       /\ cleanupPC = "returned" => cleanupPC' = "returned"
       /\ aggPC = "returned" => aggPC' = "returned"]_vars

====
